---- MODULE Spec2Model ----
(***************************************************************************)
(* Model of the WhatsApp <-> assistant relay: the conversation and message *)
(* stores (src/models/Conversation.js, src/services/database.js), the      *)
(* assistant orchestration (OpenAIService in src/services/whatsapp.js),    *)
(* the HTTP controllers that drive them, and webhook ingestion.            *)
(*                                                                         *)
(* Every request is a process: `procs[p]` holds the handler's position     *)
(* (pc) and its local variables.  One action is one step between two       *)
(* awaits of the handler, so requests interleave exactly at the awaits.    *)
(***************************************************************************)
EXTENDS Integers, Sequences, FiniteSets, TLC

VARIABLES
    conversations,  \* table conversations: row id = index
    messages,       \* table messages: row id = index
    threads,        \* assistant API: thread id = index, value = its messages
    runs,           \* assistant API: run id = index
    outbox,         \* messages the messaging platform accepted
    procs,          \* in-flight requests and their locals
    calls,          \* number of requests begun so far
    lastWrite,      \* history: the last config UPDATE statement executed
    plan,           \* history: the inputs of the merge comparison
    faults          \* number of failures of a remote or storage call so far

vars == <<conversations, messages, threads, runs, outbox, procs, calls, lastWrite, plan,
          faults>>

----------------------------------------------------------------------------
(* Bounds *)

Procs == {"p1", "p2"}

\* granularity of the clock and the horizon after which elapsed time saturates
TickStep == 60000
MaxTicks == 3
MaxElapsed == MaxTicks * TickStep

\* requests begun in one behaviour
MaxCalls == 2

\* failures of remote or storage calls in one behaviour
MaxFaults == 1

\* config values of the merge comparison: 1..MaxValue, and 0 for undefined
MaxValue == 2

\* changes in one webhook envelope
MaxChanges == 2

\* latest time a conversation row is stamped with
MaxClock == 1

\* messages in a stored thread when a request arrives
MaxFetched == 3

----------------------------------------------------------------------------
(* JavaScript values *)

\* numbers that may also be undefined or NaN are tagged pairs
Num(n) == <<"num", n>>
NaN == <<"nan", 0>>
Undefined == <<"undefined", 0>>

\* query-string values the wait endpoint may receive for interval and timeout
Absent == "absent"
QueryValues == {Absent, "", "abc", "0", "-1", "60000", "150000"}

\* parseInt on the query strings above
parseInt(s) ==
    CASE s = "0" -> Num(0)
      [] s = "-1" -> Num(-1)
      [] s = "60000" -> Num(60000)
      [] s = "150000" -> Num(150000)
      [] OTHER -> NaN

\* `q ? parseInt(q) : undefined`: an absent or empty string is falsy
QueryNumber(q) == IF q = Absent \/ q = "" THEN Undefined ELSE parseInt(q)

\* connectionLimit: process.env.DB_POOL_LIMIT || 10
ConnectionLimit == 10

\* default parameter values apply to undefined arguments only
DefaultInterval == 1000
DefaultTimeout == 120000
WithDefault(v, d) == IF v = Undefined THEN Num(d) ELSE v

\* a > b on numbers: every comparison with NaN is false
GreaterThan(a, b) == b[1] = "num" /\ a > b[2]

\* setTimeout(fn, delay): a delay that is NaN or below 1 is run as 1 ms
TimerDelay(d) == IF d[1] = "num" /\ d[2] >= 1 THEN d[2] ELSE 1

----------------------------------------------------------------------------
(* The assistant API's runs *)

\* a loop test that forgets the queued status
WaitingStatusesNoQueued == {"in_progress", "cancelling"}

WaitingStatuses == {"queued", "in_progress", "cancelling"}
EndStatuses == {"completed", "failed", "cancelled", "expired"}
RunStatuses == WaitingStatuses \cup EndStatuses

\* content of an assistant message: a list of parts
TextPart(v) == [type |-> "text", value |-> v]
ImagePart == [type |-> "image_file", value |-> ""]
Contents ==
    {<<>>, <<TextPart("a")>>, <<TextPart("a"), TextPart("b")>>, <<ImagePart, TextPart("b")>>,
     <<ImagePart>>}

----------------------------------------------------------------------------
(* Stored rows *)

Null == "NULL"
NoWamid == <<"", 0>>

EmptyConfig == [k \in {} |-> 0]

\* { ...a, ...b }: the keys of both, b's value where both have the key
Spread(a, b) ==
    [k \in DOMAIN a \cup DOMAIN b |-> IF k \in DOMAIN b THEN b[k] ELSE a[k]]

\* a config value is a positive number; 0 stands for undefined.
\* JSON.parse(JSON.stringify(c)) loses the keys whose value is undefined
IsUndefined(v) == v = 0
JsonRoundTrip(c) == [k \in {j \in DOMAIN c : ~IsUndefined(c[j])} |-> c[k]]

\* a || b on strings
OrElse(a, b) == IF a = "" \/ a = Null THEN b ELSE a

\* a constructor that keeps the fields as given
MessageWithoutDefaults(data) == data

\* new Message(data): data carries Null for the fields the caller left out
Message(data) ==
    [conversation_id |-> data.conversation_id,
     type |-> OrElse(data.type, "text"),
     wa_id |-> data.wa_id,
     text |-> OrElse(data.text, Null),
     media |-> OrElse(data.media, Null),
     location |-> OrElse(data.location, Null),
     contact |-> OrElse(data.contact, Null),
     status |-> OrElse(data.status, "pending")]

NoData ==
    [conversation_id |-> 0, type |-> Null, wa_id |-> NoWamid, text |-> Null,
     media |-> Null, location |-> Null, contact |-> Null, status |-> Null]

\* Message.createBotMessage: { ...data, type: 'bot_answer', status: 'sent' }
createBotMessage(data) == Message([data EXCEPT !.type = "bot_answer", !.status = "sent"])

----------------------------------------------------------------------------
(* Webhook envelopes *)

Senders == {"w1", "w2"}
MediaTypes == {"image", "document", "audio", "video"}

\* response.data of the media lookup: the url and mime type the platform
\* holds for the media of a message of this kind
MediaInfos ==
    {[url |-> "https://cdn/" \o t, mime_type |-> t \o "/x"] : t \in MediaTypes}

\* a mediaData that keeps the mime type only
MediaDataWithoutUrl(mediaInfo) == "{" \o mediaInfo.mime_type \o "}"

\* const mediaData = { url: mediaInfo.url, mime_type: mediaInfo.mime_type, ... },
\* as the row holds it: JSON.stringify(this.media)
MediaData(mediaInfo) == "{" \o mediaInfo.url \o "," \o mediaInfo.mime_type \o "}"

\* one element of value.messages: text is message.text.body, media is
\* message[message.type].id with 0 for a media object without id
InboundMessage(from, type, id, text, media) ==
    [from |-> from, type |-> type, id |-> id, text |-> text, media |-> media]

NoMessage == InboundMessage("", "", 0, "", 0)

\* the media case labels share one branch: its first and last label stand for it
InboundMessages ==
    {InboundMessage(s, "text", 1, "hi", 0) : s \in Senders}
    \cup {InboundMessage("w1", "text", 1, "", 0)}
    \cup {InboundMessage("w1", t, 1, "", 1) : t \in {"image", "video"}}
    \cup {InboundMessage("w1", "image", 1, "", 0)}
    \cup {InboundMessage("w1", t, 1, "", 0) : t \in {"location", "contacts", "sticker"}}

\* one element of entry.changes; the changes of all entries, in order
Change(field, ms) == [field |-> field, messages |-> ms]

Changes ==
    {Change("statuses", <<>>), Change("messages", <<>>)}
    \cup {Change("messages", <<m>>) : m \in InboundMessages}
    \cup {Change("messages", << InboundMessage("w1", "text", 1, "hi", 0),
                               InboundMessage("w2", "text", 2, "hi", 0) >>)}

\* no body, a body without entry, or the changes of its entries
NoBody == << Change("no body", <<>>) >>
NoEntry == << Change("no entry", <<>>) >>
Envelopes == {NoBody, NoEntry} \cup UNION {[1..n -> Changes] : n \in 0..MaxChanges}

\* history: how the last message event was handled
NoMediaInfo == [url |-> "", mime_type |-> ""]

\* history: how the last message event was handled; mediaInfo is what
\* getMediaInfo returned for it
NoEvent ==
    [from |-> "", type |-> "", id |-> 0, at |-> 0, convs0 |-> 0, rows0 |-> 0, conv |-> 0,
     created |-> FALSE, row |-> 0, done |-> FALSE, mediaInfo |-> NoMediaInfo]

----------------------------------------------------------------------------
(* Requests *)

IdleProc ==
    [op |-> "idle", pc |-> "idle",
     conversationId |-> 0, messageId |-> 0,
     phoneNumberId |-> 0,
     conv |-> 0, wa_id |-> "", config |-> EmptyConfig, text |-> "",
     incoming |-> EmptyConfig, ret |-> "",
     threadId |-> 0, runId |-> 0, assistantId |-> 0,
     replyRun |-> 0, sentId |-> 0, rows0 |-> 0, sent0 |-> 0,
     interval |-> Undefined, timeout |-> Undefined,
     status |-> "none", elapsed |-> 0, wake |-> 0,
     responseText |-> "",
     envelope |-> <<>>, changes |-> <<>>, at |-> 0, convs0 |-> 0,
     to |-> "", mediaType |-> "", newStatus |-> "",
     message |-> NoMessage, createdAt |-> 0, data |-> NoData,
     result |-> "none", handled |-> NoEvent, lastIndex |-> 0,
     script |-> <<>>, held |-> 0, caption |-> "NULL", given |-> NoWamid,
     query |-> [mode |-> "", token |-> "", challenge |-> ""],
     answer |-> [status |-> 0, body |-> ""],
     thrown |-> [class |-> "", statusCode |-> 0, message |-> "", isOperational |-> FALSE],
     nodeEnv |-> "",
     response |-> [status |-> 0, message |-> "", stack |-> FALSE, handleError |-> 0],
     outcome |-> "none",
     log |-> <<>>, waited |-> "no", afterEnd |-> FALSE]

InWait(p) == procs[p].pc \in {"wfr_first", "wfr_check", "wfr_sleep", "wfr_fetch"}

\* a handler's catch block hands the error to next(error)
Throw(p, e) == [procs EXCEPT ![p].pc = "done", ![p].outcome = e]

\* a remote or storage call may fail while the budget of failures lasts
CountFault(p) ==
    /\ faults' = faults + (IF procs'[p].outcome \in {"RemoteError", "StorageError"}
                           THEN 1 ELSE 0)
    /\ faults' <= MaxFaults

Range(f) == {f[i] : i \in DOMAIN f}

\* the calls a request made, in order; repeated polls are written once
Logged(log, e) == IF log # <<>> /\ log[Len(log)] = e THEN log ELSE Append(log, e)

Min(a, b) == IF a < b THEN a ELSE b

----------------------------------------------------------------------------
(* Environment: the assistant service advances a run; time passes *)

RunSuccessors(s) ==
    CASE s = "queued" -> {"in_progress", "cancelling", "failed", "expired"}
      [] s = "in_progress" -> {"completed", "failed", "expired", "cancelling"}
      [] s = "cancelling" -> {"cancelled"}
      [] OTHER -> {}

\* created_at of a message added to a thread: later than every message in it
StampAfter(ms) ==
    1 + (CHOOSE t \in {0} \cup {ms[i].created_at : i \in DOMAIN ms} :
            \A i \in DOMAIN ms : ms[i].created_at <= t)

\* a run that completes may leave one assistant message in its thread
RunStep ==
    \E r \in 1..Len(runs) : \E s \in RunSuccessors(runs[r].status) :
        /\ runs' = [runs EXCEPT ![r].status = s]
        /\ \/ /\ s = "completed"
              /\ \E c \in Contents :
                    threads' = [threads EXCEPT ![runs[r].thread].messages =
                        Append(@, [role |-> "assistant", content |-> c, run |-> r,
                                   created_at |-> StampAfter(@)])]
           \/ threads' = threads
        /\ UNCHANGED <<conversations, messages, outbox, procs, calls, lastWrite, plan, faults>>

\* elapsed time is kept per waiting request, relative to its startTime, and
\* saturates at MaxElapsed (a value above every timeout in use)
Tick ==
    /\ \E p \in Procs : InWait(p) /\ procs[p].elapsed < MaxElapsed
    /\ procs' = [p \in Procs |->
            IF InWait(p)
            THEN [procs[p] EXCEPT !.elapsed = Min(@ + TickStep, MaxElapsed)]
            ELSE procs[p]]
    /\ UNCHANGED <<conversations, messages, threads, runs, outbox, calls, lastWrite, plan, faults>>

----------------------------------------------------------------------------
(* OpenAIService.waitForRun *)

\* what follows a normal return of waitForRun in the calling handler
AfterWait(pr) ==
    IF pr.op = "waitForRun"
    THEN [pr EXCEPT !.pc = "done", !.outcome = "ok"]
    ELSE [pr EXCEPT !.pc = "pc_last"]

\* the loop test and body up to the timer, run with the status just fetched
waitForRunLoop(pr, s) ==
    IF s \in WaitingStatuses
    THEN IF GreaterThan(pr.elapsed, pr.timeout)
         THEN [pr EXCEPT !.pc = "done", !.outcome = "Timeout", !.waited = "timeout",
                         !.status = s]
         ELSE [pr EXCEPT !.pc = "wfr_sleep", !.status = s,
                         !.wake = pr.elapsed + TimerDelay(pr.interval)]
    ELSE AfterWait([pr EXCEPT !.status = s, !.waited = "returned"])

\* a getRunStatus call returns (or fails), then the loop runs on
waitForRunPoll(p) ==
    /\ procs[p].pc \in {"wfr_first", "wfr_fetch"}
    /\ LET pr == [procs[p] EXCEPT
                    !.log = Logged(@, "runs.retrieve"),
                    !.afterEnd = @ \/ (procs[p].pc = "wfr_fetch"
                                        /\ procs[p].status \notin WaitingStatuses)]
       IN  \/ /\ pr.runId \in 1..Len(runs)
              /\ procs' = [procs EXCEPT ![p] = waitForRunLoop(pr, runs[pr.runId].status)]
           \/ procs' = [procs EXCEPT ![p] =
                    [pr EXCEPT !.pc = "done", !.outcome = "RemoteError", !.waited = "error"]]
    /\ UNCHANGED <<conversations, messages, threads, runs, outbox, calls, lastWrite, plan>>
    /\ CountFault(p)

\* the interval timer fires
waitForRunWake(p) ==
    /\ procs[p].pc = "wfr_sleep"
    /\ procs[p].elapsed >= procs[p].wake \/ procs[p].elapsed = MaxElapsed
    /\ procs' = [procs EXCEPT ![p].pc = "wfr_fetch"]
    /\ UNCHANGED <<conversations, messages, threads, runs, outbox, calls, lastWrite, plan, faults>>

\* GET /threads/:threadId/runs/:runId/wait?interval=&timeout=
waitForRunEndpoint(p) ==
    /\ procs[p].op = "idle" /\ calls < MaxCalls
    /\ \E r \in 1..(Len(runs) + 1), qi \in QueryValues, qt \in QueryValues :
        procs' = [procs EXCEPT ![p] = [IdleProc EXCEPT
            !.op = "waitForRun", !.pc = "wfr_first", !.runId = r,
            !.threadId = IF r <= Len(runs) THEN runs[r].thread ELSE 1,
            !.interval = WithDefault(QueryNumber(qi), DefaultInterval),
            !.timeout = WithDefault(QueryNumber(qt), DefaultTimeout)]]
    /\ calls' = calls + 1
    /\ UNCHANGED <<conversations, messages, threads, runs, outbox, lastWrite, plan, faults>>

----------------------------------------------------------------------------
(* Conversation.findById and Conversation.updateConfig, as request steps *)

\* a request as it starts: history fields note the tables' sizes at that time
NewRequest(op) ==
    [IdleProc EXCEPT !.op = op, !.rows0 = Len(messages), !.sent0 = Len(outbox),
                     !.convs0 = Len(conversations)]

\* a merge that drops the incoming keys
MergedConfigKeepsOld(config, configData) == config

\* this.config = { ...this.config, ...configData }
MergedConfig(config, configData) == Spread(config, configData)

ConfigLogEntry(configData) ==
    CASE DOMAIN configData = {"thread_id"} -> "config.thread_id"
      [] DOMAIN configData = {"run_id"} -> "config.run_id"
      [] OTHER -> "config"

\* the handler's position after the awaited updateConfig returned
AfterConfig(pr) ==
    CASE pr.ret = "wfr_first" ->
            \* waitForRun(threadId, run.id): startTime is taken, defaults apply
            [pr EXCEPT !.pc = "wfr_first", !.elapsed = 0,
                       !.interval = WithDefault(Undefined, DefaultInterval),
                       !.timeout = WithDefault(Undefined, DefaultTimeout)]
      [] pr.ret = "return" -> [pr EXCEPT !.pc = "done", !.outcome = "ok"]
      [] OTHER -> [pr EXCEPT !.pc = pr.ret]

\* history: a thread whose id reached the stored config is marked as stored
Persisted(ths, stored) ==
    [t \in DOMAIN ths |->
        IF "thread_id" \in DOMAIN stored /\ stored["thread_id"] = t
        THEN [ths[t] EXCEPT !.stored = TRUE] ELSE ths[t]]

\* conversation.updateConfig(configData): merge into the object in memory,
\* then UPDATE conversations SET config = <the whole object> WHERE id = this.id
updateConfig(p) ==
    /\ procs[p].pc = "cfg_write"
    /\ LET pr == procs[p]
           merged == MergedConfig(pr.config, pr.incoming)
       IN  \/ /\ conversations' =
                    [conversations EXCEPT ![pr.conv].config = JsonRoundTrip(merged)]
              /\ lastWrite' = [conv |-> pr.conv,
                               before |-> conversations[pr.conv].config,
                               incoming |-> DOMAIN pr.incoming,
                               after |-> JsonRoundTrip(merged)]
              /\ procs' = [procs EXCEPT ![p] = AfterConfig(
                    [pr EXCEPT !.config = merged,
                               !.log = Append(@, ConfigLogEntry(pr.incoming))])]
              /\ threads' = Persisted(threads, JsonRoundTrip(merged))
           \/ /\ procs' = Throw(p, "StorageError")
              /\ UNCHANGED <<conversations, lastWrite, threads>>
    /\ UNCHANGED <<messages, runs, outbox, calls, plan>>
    /\ CountFault(p)

\* the handler's position after findConversationById returned a row
AfterFind(pr) ==
    CASE pr.op = "processMessageWithAI" -> [pr EXCEPT !.pc = "find_msg"]
      \* sendMessage and sendMediaMessage send to req.body.to
      [] pr.op = "sendMessage" -> [pr EXCEPT !.pc = "send_post", !.wa_id = pr.to]
      [] pr.op = "sendMediaMessage" -> [pr EXCEPT !.pc = "media_post", !.wa_id = pr.to]
      [] pr.op = "createThread" -> [pr EXCEPT !.pc = "create_thread"]
      [] pr.op = "runAssistant" -> [pr EXCEPT !.pc = "run_assistant"]
      [] OTHER -> [pr EXCEPT !.pc = "cfg_write"]

\* databaseService.findConversationById(conversationId): the row is parsed
\* into a fresh Conversation object owned by the request
findConversationById(p) ==
    /\ procs[p].pc = "find_conv"
    /\ LET pr == procs[p]
       IN  \/ /\ pr.conversationId \in 1..Len(conversations)
              /\ procs' = [procs EXCEPT ![p] = AfterFind(
                    [pr EXCEPT !.conv = pr.conversationId,
                               !.wa_id = conversations[pr.conversationId].wa_id,
                               !.config = conversations[pr.conversationId].config])]
           \/ /\ pr.conversationId \notin 1..Len(conversations)
              /\ procs' = Throw(p, IF pr.op = "updateConversationConfig"
                                    THEN "Error" ELSE "ApiError404")
           \/ procs' = Throw(p, "StorageError")
    /\ UNCHANGED <<conversations, messages, threads, runs, outbox, calls, lastWrite, plan>>
    /\ CountFault(p)

----------------------------------------------------------------------------
(* processMessageWithAI and OpenAIService.processConversation *)

DefaultAssistant == "env"

\* config.assistant_openai_id || this.assistantId in processConversation,
\* options.assistantId || this.assistantId for the run endpoint
AssistantFor(pr) ==
    IF pr.op = "runAssistant"
    THEN IF IsUndefined(pr.assistantId) THEN <<DefaultAssistant, 0>>
         ELSE <<"options", pr.assistantId>>
    ELSE IF "assistant_openai_id" \in DOMAIN pr.config
            /\ ~IsUndefined(pr.config["assistant_openai_id"])
         THEN <<"config", pr.config["assistant_openai_id"]>>
         ELSE <<DefaultAssistant, 0>>

\* a test that never finds the stored thread
NoThreadEver(config) == TRUE

\* !config.thread_id
NoThread(config) == "thread_id" \notin DOMAIN config \/ IsUndefined(config["thread_id"])

\* POST /processWithAI: the parameter check, then the first lookup is awaited
processMessageWithAICall(p, m, c, ph) ==
    /\ procs[p].op = "idle"
    /\ procs' = [procs EXCEPT ![p] =
            IF m = 0 \/ c = 0 \/ ph = 0
            THEN [NewRequest("processMessageWithAI") EXCEPT !.pc = "done",
                                  !.outcome = "ApiError400"]
            ELSE [NewRequest("processMessageWithAI") EXCEPT !.pc = "find_conv",
                                  !.messageId = m, !.conversationId = c,
                                  !.phoneNumberId = ph]]
    /\ calls' = calls + 1
    /\ UNCHANGED <<conversations, messages, threads, runs, outbox, lastWrite, plan, faults>>

processMessageWithAI(p) ==
    /\ calls < MaxCalls
    /\ \E m \in 0..(Len(messages) + 1), c \in 0..(Len(conversations) + 1), ph \in 0..1 :
            processMessageWithAICall(p, m, c, ph)

\* findMessageById returns; processConversation starts and reads config.thread_id
findMessageById(p) ==
    /\ procs[p].pc = "find_msg"
    /\ LET pr == procs[p]
       IN  \/ /\ pr.messageId \in 1..Len(messages)
              /\ procs' = [procs EXCEPT ![p] =
                    [pr EXCEPT !.text = messages[pr.messageId].text,
                               !.threadId = IF NoThread(pr.config) THEN 0
                                            ELSE pr.config["thread_id"],
                               !.pc = IF NoThread(pr.config) THEN "create_thread"
                                      ELSE "append"]]
           \/ /\ pr.messageId \notin 1..Len(messages)
              /\ procs' = Throw(p, "ApiError404")
           \/ procs' = Throw(p, "StorageError")
    /\ UNCHANGED <<conversations, messages, threads, runs, outbox, calls, lastWrite, plan>>
    /\ CountFault(p)

\* a handler that goes on to the thread without storing its id
AfterCreateThreadUnsaved(pr, t) ==
    [pr EXCEPT !.threadId = t, !.config = Spread(pr.config, ("thread_id" :> t)),
               !.pc = IF pr.op = "createThread" THEN "done" ELSE "append",
               !.outcome = IF pr.op = "createThread" THEN "ok" ELSE "none",
               !.log = Append(@, "threads.create")]

\* the handler after threads.create returned thread t
AfterCreateThread(pr, t) ==
    IF pr.op = "createThread"
    THEN [pr EXCEPT !.threadId = t, !.incoming = ("thread_id" :> t),
                    !.pc = "cfg_write", !.ret = "return",
                    !.log = Append(@, "threads.create")]
    ELSE \* config.thread_id = threadId writes into conversation.config itself
         [pr EXCEPT !.threadId = t, !.incoming = ("thread_id" :> t),
                    !.config = Spread(pr.config, ("thread_id" :> t)),
                    !.pc = "cfg_write", !.ret = "append",
                    !.log = Append(@, "threads.create")]

\* openaiService.createThread(): client.beta.threads.create()
createThread(p) ==
    /\ procs[p].pc = "create_thread"
    /\ \/ /\ threads' = Append(threads, [messages |-> <<>>, by |-> procs[p].op,
                                          conv |-> procs[p].conv, stored |-> FALSE])
          /\ procs' = [procs EXCEPT ![p] = AfterCreateThread(procs[p], Len(threads) + 1)]
       \/ /\ procs' = Throw(p, "RemoteError")
          /\ UNCHANGED threads
    /\ UNCHANGED <<conversations, messages, runs, outbox, calls, lastWrite, plan>>
    /\ CountFault(p)

\* a variant that appends to the thread the stored config names at that time
createMessageToStored(p) ==
    /\ procs[p].pc = "append"
    /\ LET pr == procs[p]
           stored == conversations[pr.conv].config
           t == IF NoThread(stored) THEN pr.threadId ELSE stored["thread_id"]
       IN  /\ threads' = [threads EXCEPT ![t].messages = Append(@,
                    [role |-> "user", content |-> <<TextPart(pr.text)>>, run |-> 0,
                     created_at |-> StampAfter(@)])]
           /\ procs' = [procs EXCEPT ![p] =
                    [pr EXCEPT !.pc = "run_assistant",
                               !.log = Append(@, "messages.create")]]
    /\ UNCHANGED <<conversations, messages, runs, outbox, calls, lastWrite, plan, faults>>

\* openaiService.createMessage(threadId, message): a user message in the thread
createMessage(p) ==
    /\ procs[p].pc = "append"
    /\ LET pr == procs[p]
       IN  \/ /\ pr.threadId \in 1..Len(threads)
              /\ threads' = [threads EXCEPT ![pr.threadId].messages = Append(@,
                    [role |-> "user", content |-> <<TextPart(pr.text)>>, run |-> 0,
                     created_at |-> StampAfter(@)])]
              /\ procs' = [procs EXCEPT ![p] =
                    [pr EXCEPT !.pc = "run_assistant",
                               !.log = Append(@, "messages.create")]]
           \/ /\ procs' = Throw(p, "RemoteError")
              /\ UNCHANGED threads
    /\ UNCHANGED <<conversations, messages, runs, outbox, calls, lastWrite, plan>>
    /\ CountFault(p)

\* openaiService.runAssistant(threadId, options): client.beta.threads.runs.create
runAssistant(p) ==
    /\ procs[p].pc = "run_assistant"
    /\ LET pr == procs[p]
       IN  \/ /\ pr.threadId \in 1..Len(threads)
              /\ runs' = Append(runs, [thread |-> pr.threadId, status |-> "queued",
                                       assistant |-> AssistantFor(pr)])
              /\ procs' = [procs EXCEPT ![p] =
                    [pr EXCEPT !.runId = Len(runs) + 1,
                               !.incoming = ("run_id" :> (Len(runs) + 1)),
                               !.pc = "cfg_write",
                               !.ret = IF pr.op = "runAssistant" THEN "return"
                                       ELSE "wfr_first",
                               !.log = Append(@, "runs.create")]]
           \/ /\ procs' = Throw(p, "RemoteError")
              /\ UNCHANGED runs
    /\ UNCHANGED <<conversations, messages, threads, outbox, calls, lastWrite, plan>>
    /\ CountFault(p)

RECURSIVE ResponseText(_)
\* the loop over aiResponse.content: text parts are concatenated in order
ResponseText(content) ==
    IF content = <<>> THEN ""
    ELSE (IF Head(content).type = "text" THEN Head(content).value ELSE "")
            \o ResponseText(Tail(content))

\* the assistant messages of a thread, as indexes
AssistantMessages(msgs) == {i \in 1..Len(msgs) : msgs[i].role = "assistant"}

\* Array.prototype.sort with (a, b) => new Date(b.created_at) - new Date(a.created_at)
\* is stable: index i is placed before the first index whose message is older
InsertNewestFirst(sorted, i, msgs) ==
    LET before == {k \in 1..Len(sorted) :
                    \A j \in 1..k : msgs[sorted[j]].created_at >= msgs[i].created_at}
        n == Cardinality(before)
    IN  SubSeq(sorted, 1, n) \o <<i>> \o SubSeq(sorted, n + 1, Len(sorted))

RECURSIVE SortNewestFirst(_, _)
\* the indexes in `list`, sorted by created_at, newest first
SortNewestFirst(list, msgs) ==
    IF list = <<>> THEN <<>>
    ELSE InsertNewestFirst(SortNewestFirst(SubSeq(list, 1, Len(list) - 1), msgs),
                           list[Len(list)], msgs)

\* messages.filter(msg => msg.role === 'assistant'), as indexes in list order
FilterAssistant(msgs) ==
    SelectSeq([i \in 1..Len(msgs) |-> i], LAMBDA i : msgs[i].role = "assistant")

\* a variant that returns the first assistant message of the list as fetched
lastAssistantMessageUnsorted(msgs) ==
    LET assistantMessages == FilterAssistant(msgs)
    IN  IF Len(assistantMessages) > 0 THEN assistantMessages[1] ELSE 0

\* OpenAIService.getLastAssistantMessage on the fetched list: the index of the
\* message it returns, 0 for null
lastAssistantMessage(msgs) ==
    LET assistantMessages == SortNewestFirst(FilterAssistant(msgs), msgs)
    IN  IF Len(assistantMessages) > 0 THEN assistantMessages[1] ELSE 0

\* what the caller does with the message getLastAssistantMessage returned
\* (index i of msgs, 0 for null): the endpoint answers 404 or 200;
\* processConversation returns it to processMessageWithAI, where the reply is
\* checked, its text extracted, and sendTextMessage posts it
AfterLast(pr, msgs, i) ==
    IF pr.op = "getLastAssistantMessage"
    THEN [pr EXCEPT !.pc = "done", !.lastIndex = i,
                    !.outcome = IF i = 0 THEN "404" ELSE "ok"]
    ELSE IF i = 0 \/ msgs[i].content = <<>>
         THEN [pr EXCEPT !.pc = "done", !.lastIndex = i, !.outcome = "ApiError500"]
         ELSE [pr EXCEPT !.pc = "send_post", !.lastIndex = i,
                         !.replyRun = msgs[i].run,
                         !.responseText = ResponseText(msgs[i].content)]

\* getLastAssistantMessage(threadId): getMessages fetches the list, or fails
getLastAssistantMessage(p) ==
    /\ procs[p].pc = "pc_last"
    /\ LET pr == [procs[p] EXCEPT !.log = Append(@, "messages.list")]
           msgs == threads[pr.threadId].messages
       IN  \/ /\ pr.threadId \in 1..Len(threads)
              /\ procs' = [procs EXCEPT ![p] =
                    AfterLast(pr, msgs, lastAssistantMessage(msgs))]
           \/ procs' = Throw(p, "RemoteError")
    /\ UNCHANGED <<conversations, messages, threads, runs, outbox, calls, lastWrite, plan>>
    /\ CountFault(p)

\* GET /threads/:threadId/messages/last
getLastAssistantMessageEndpoint(p) ==
    /\ procs[p].op = "idle" /\ calls < MaxCalls
    /\ \E t \in 1..Len(threads) :
        procs' = [procs EXCEPT ![p] =
            [NewRequest("getLastAssistantMessage") EXCEPT !.pc = "pc_last",
                        !.threadId = t]]
    /\ calls' = calls + 1
    /\ UNCHANGED <<conversations, messages, threads, runs, outbox, lastWrite, plan, faults>>

\* whatsappService.sendTextMessage: the platform accepts the text message
sendTextMessagePost(p) ==
    /\ procs[p].pc = "send_post"
    /\ LET pr == procs[p]
       IN  \/ /\ outbox' = Append(outbox, [to |-> pr.wa_id, text |-> pr.responseText])
              /\ procs' = [procs EXCEPT ![p] =
                    [pr EXCEPT !.pc = "send_row", !.sentId = Len(outbox) + 1,
                               !.log = Append(@, "whatsapp.send")]]
           \/ /\ procs' = Throw(p, "RemoteError")
              /\ UNCHANGED outbox
    /\ UNCHANGED <<conversations, messages, threads, runs, calls, lastWrite, plan>>
    /\ CountFault(p)

\* whatsappService.sendTextMessage: the sent message is recorded
sendTextMessageRow(p) ==
    /\ procs[p].pc = "send_row"
    /\ LET pr == procs[p]
       IN  \/ /\ messages' = Append(messages, createBotMessage(
                    [NoData EXCEPT !.conversation_id = pr.conversationId,
                                   !.type = "bot_answer",
                                   !.wa_id = <<"out", pr.sentId>>,
                                   !.text = pr.responseText,
                                   !.status = "sent"]))
              /\ procs' = [procs EXCEPT ![p] =
                    [pr EXCEPT !.pc = "done", !.outcome = "ok",
                               !.log = Append(@, "row.bot_answer")]]
           \/ /\ procs' = Throw(p, "StorageError")
              /\ UNCHANGED messages
    /\ UNCHANGED <<conversations, threads, runs, outbox, calls, lastWrite, plan>>
    /\ CountFault(p)

----------------------------------------------------------------------------
(* POST /send and POST /sendMedia *)

\* req.body.message: absent, or a text
BodyTexts == {"", "hello"}

\* a parameter check that does not look at phoneNumberId
MissingParametersButPhone(to, body, conversationId, phoneNumberId) ==
    to = "" \/ body = "" \/ conversationId = 0

\* !to || !message || !conversationId || !phoneNumberId, and the same test on
\* mediaData: an absent field is "" or 0
MissingParameters(to, body, conversationId, phoneNumberId) ==
    to = "" \/ body = "" \/ conversationId = 0 \/ phoneNumberId = 0

\* POST /send: the parameter check, then the conversation lookup is awaited
sendMessageCall(p, to, message, c, ph) ==
    /\ procs[p].op = "idle"
    /\ procs' = [procs EXCEPT ![p] =
            IF MissingParameters(to, message, c, ph)
            THEN [NewRequest("sendMessage") EXCEPT !.pc = "done", !.outcome = "ApiError400"]
            ELSE [NewRequest("sendMessage") EXCEPT !.pc = "find_conv", !.to = to,
                        !.responseText = message, !.conversationId = c,
                        !.phoneNumberId = ph]]
    /\ calls' = calls + 1
    /\ UNCHANGED <<conversations, messages, threads, runs, outbox, lastWrite, plan, faults>>

sendMessage(p) ==
    /\ calls < MaxCalls
    /\ \E to \in Senders \cup {""}, message \in BodyTexts,
          c \in 0..(Len(conversations) + 1), ph \in 0..1 :
            sendMessageCall(p, to, message, c, ph)

\* mediaData.caption: left out, empty, or a text
Captions == {Null, "", "look"}

\* POST /sendMedia: mediaData is absent (type "") or { type, url, caption }
sendMediaMessageCall(p, to, type, caption, c, ph) ==
    /\ procs[p].op = "idle"
    /\ procs' = [procs EXCEPT ![p] =
            IF MissingParameters(to, type, c, ph)
            THEN [NewRequest("sendMediaMessage") EXCEPT !.pc = "done",
                        !.outcome = "ApiError400"]
            ELSE [NewRequest("sendMediaMessage") EXCEPT !.pc = "find_conv", !.to = to,
                        !.mediaType = type, !.caption = caption,
                        !.conversationId = c, !.phoneNumberId = ph]]
    /\ calls' = calls + 1
    /\ UNCHANGED <<conversations, messages, threads, runs, outbox, lastWrite, plan, faults>>

sendMediaMessage(p) ==
    /\ calls < MaxCalls
    /\ \E to \in Senders \cup {""}, type \in MediaTypes \cup {""}, caption \in Captions,
          c \in 0..(Len(conversations) + 1), ph \in 0..1 :
            sendMediaMessageCall(p, to, type, caption, c, ph)

\* whatsappService.sendMediaMessage: axios.post of the media payload
sendMediaMessagePost(p) ==
    /\ procs[p].pc = "media_post"
    /\ LET pr == procs[p]
       IN  \/ /\ outbox' = Append(outbox, [to |-> pr.wa_id, text |-> Null,
                                           media |-> pr.mediaType,
                                           \* caption: caption || ''
                                           caption |-> OrElse(pr.caption, "")])
              /\ procs' = [procs EXCEPT ![p] =
                    [pr EXCEPT !.pc = "media_row", !.sentId = Len(outbox) + 1]]
           \/ /\ procs' = Throw(p, "RemoteError")
              /\ UNCHANGED outbox
    /\ UNCHANGED <<conversations, messages, threads, runs, calls, lastWrite, plan>>
    /\ CountFault(p)

\* a derivation that ignores the type unless it is document
MimeTypeImage(type) == IF type = "document" THEN "application/pdf" ELSE "image/jpeg"

\* `${type}/${type === 'document' ? 'pdf' : 'jpeg'}`
MimeType(type) == type \o "/" \o (IF type = "document" THEN "pdf" ELSE "jpeg")

\* Message.createMediaMessage: { ...data, type: 'media', media: mediaData }
createMediaMessage(data, mediaData) ==
    Message([data EXCEPT !.type = "media", !.media = mediaData])

\* whatsappService.sendMediaMessage: the sent message is recorded
sendMediaMessageRow(p) ==
    /\ procs[p].pc = "media_row"
    /\ LET pr == procs[p]
       IN  \/ /\ messages' = Append(messages, createMediaMessage(
                    [NoData EXCEPT !.conversation_id = pr.conversationId,
                                   !.type = "bot_answer",
                                   !.wa_id = <<"out", pr.sentId>>,
                                   !.status = "sent"],
                    MimeType(pr.mediaType)))
              /\ procs' = [procs EXCEPT ![p] = [pr EXCEPT !.pc = "done", !.outcome = "ok"]]
           \/ /\ procs' = Throw(p, "StorageError")
              /\ UNCHANGED messages
    /\ UNCHANGED <<conversations, threads, runs, outbox, calls, lastWrite, plan>>
    /\ CountFault(p)

----------------------------------------------------------------------------
(* POST /markAsRead and DatabaseService.updateMessageStatus *)

\* the statuses a caller of updateMessageStatus passes
StatusInputs == {"pending", "sent", "delivered", "read", "failed"}

\* this.id = data.id || uuidv4(): the id of row i, which no caller of
\* createMessage supplies; it differs from every platform message id (wa_id)
RowId(i) == <<"row", i>>

\* SELECT * FROM messages WHERE id = ?: the row with that id, or a row
\* number past the table when there is none
RowOfId(id) ==
    IF \E i \in 1..Len(messages) : RowId(i) = id
    THEN CHOOSE i \in 1..Len(messages) : RowId(i) = id
    ELSE Len(messages) + 1

\* the identifiers a caller may pass as messageId: none, the id of a stored
\* row or of no row, the platform message id of a stored row
MessageIds ==
    {NoWamid} \cup {RowId(i) : i \in 1..(Len(messages) + 1)}
              \cup {messages[i].wa_id : i \in 1..Len(messages)}

\* POST /markAsRead: the parameter check, then markMessageAsRead posts the receipt
markAsRead(p) ==
    /\ procs[p].op = "idle" /\ calls < MaxCalls
    /\ \E id \in MessageIds, ph \in 0..1 :
        procs' = [procs EXCEPT ![p] =
            IF id = NoWamid \/ ph = 0
            THEN [NewRequest("markAsRead") EXCEPT !.pc = "done", !.outcome = "ApiError400"]
            ELSE [NewRequest("markAsRead") EXCEPT !.pc = "read_post", !.given = id,
                        !.messageId = RowOfId(id),
                        !.phoneNumberId = ph, !.newStatus = "read"]]
    /\ calls' = calls + 1
    /\ UNCHANGED <<conversations, messages, threads, runs, outbox, lastWrite, plan, faults>>

\* markMessageAsRead: axios.post of { status: 'read', message_id: messageId }
markMessageAsReadPost(p) ==
    /\ procs[p].pc = "read_post"
    /\ \/ /\ outbox' = Append(outbox, [to |-> "", text |-> Null,
                                       receipt |-> procs[p].given])
          /\ procs' = [procs EXCEPT ![p].pc = "status_find"]
       \/ /\ procs' = Throw(p, "RemoteError")
          /\ UNCHANGED outbox
    /\ UNCHANGED <<conversations, messages, threads, runs, calls, lastWrite, plan>>
    /\ CountFault(p)

\* databaseService.updateMessageStatus(id, status) is called
updateMessageStatus(p) ==
    /\ procs[p].op = "idle" /\ calls < MaxCalls
    /\ \E m \in 1..(Len(messages) + 1), status \in StatusInputs :
        procs' = [procs EXCEPT ![p] =
            [NewRequest("updateMessageStatus") EXCEPT !.pc = "status_find",
                        !.messageId = m, !.newStatus = status]]
    /\ calls' = calls + 1
    /\ UNCHANGED <<conversations, messages, threads, runs, outbox, lastWrite, plan, faults>>

\* updateMessageStatus: const message = await Message.findById(id)
updateMessageStatusFind(p) ==
    /\ procs[p].pc = "status_find"
    /\ \/ /\ procs[p].messageId \in 1..Len(messages)
          /\ procs' = [procs EXCEPT ![p].pc = "status_write"]
       \/ /\ procs[p].messageId \notin 1..Len(messages)
          /\ procs' = Throw(p, "Error")
       \/ procs' = Throw(p, "StorageError")
    /\ UNCHANGED <<conversations, messages, threads, runs, outbox, calls, lastWrite, plan>>
    /\ CountFault(p)

\* Message.updateStatus(status): UPDATE messages SET status = ? WHERE id = ?
updateStatus(p) ==
    /\ procs[p].pc = "status_write"
    /\ \/ /\ messages' = [messages EXCEPT ![procs[p].messageId].status = procs[p].newStatus]
          /\ procs' = [procs EXCEPT ![p].pc = "done", ![p].outcome = "ok"]
       \/ /\ procs' = Throw(p, "StorageError")
          /\ UNCHANGED messages
    /\ UNCHANGED <<conversations, threads, runs, outbox, calls, lastWrite, plan>>
    /\ CountFault(p)

----------------------------------------------------------------------------
(* The other requests that write a conversation's config *)

\* partial configs a caller of updateConversationConfig passes
ConfigInputs == {("assistant_openai_id" :> 1)}

\* the functions from a subset of K to V
PartialFunctions(K, V) == UNION {[S -> V] : S \in SUBSET K}

\* databaseService.updateConversationConfig(id, configData) is called
updateConversationConfigCall(p, id, configData) ==
    /\ procs[p].op = "idle"
    /\ procs' = [procs EXCEPT ![p] =
            [NewRequest("updateConversationConfig") EXCEPT !.pc = "find_conv",
                             !.conversationId = id, !.incoming = configData,
                             !.ret = "return"]]
    /\ calls' = calls + 1
    /\ UNCHANGED <<conversations, messages, threads, runs, outbox, lastWrite, plan, faults>>

updateConversationConfig(p) ==
    /\ calls < MaxCalls
    /\ \E id \in 1..(Len(conversations) + 1), d \in ConfigInputs :
            updateConversationConfigCall(p, id, d)

\* POST /threads { conversationId }
createThreadEndpoint(p) ==
    /\ procs[p].op = "idle" /\ calls < MaxCalls
    /\ \E c \in 0..(Len(conversations) + 1) :
        procs' = [procs EXCEPT ![p] =
            IF c = 0
            THEN [NewRequest("createThread") EXCEPT !.pc = "done",
                                  !.outcome = "ApiError400"]
            ELSE [NewRequest("createThread") EXCEPT !.pc = "find_conv",
                                  !.conversationId = c]]
    /\ calls' = calls + 1
    /\ UNCHANGED <<conversations, messages, threads, runs, outbox, lastWrite, plan, faults>>

\* POST /threads/:threadId/runs { threadId, conversationId, options }
runAssistantEndpoint(p) ==
    /\ procs[p].op = "idle" /\ calls < MaxCalls
    /\ \E t \in 0..(Len(threads) + 1), c \in 0..(Len(conversations) + 1), a \in 0..1 :
        procs' = [procs EXCEPT ![p] =
            IF t = 0 \/ c = 0
            THEN [NewRequest("runAssistant") EXCEPT !.pc = "done",
                                  !.outcome = "ApiError400"]
            ELSE [NewRequest("runAssistant") EXCEPT !.pc = "find_conv",
                                  !.conversationId = c, !.threadId = t,
                                  !.assistantId = a]]
    /\ calls' = calls + 1
    /\ UNCHANGED <<conversations, messages, threads, runs, outbox, lastWrite, plan, faults>>

\* a finished request frees its slot
Finish(p) ==
    /\ procs[p].pc = "done"
    /\ procs' = [procs EXCEPT ![p] = IdleProc]
    /\ UNCHANGED <<conversations, messages, threads, runs, outbox, calls, lastWrite, plan, faults>>

----------------------------------------------------------------------------
(* Specification of the orchestration: requests on stored conversations *)

NoWrite == [conv |-> 0, before |-> EmptyConfig, incoming |-> {}, after |-> EmptyConfig]
NoPlan == [c |-> EmptyConfig, p |-> EmptyConfig, q |-> EmptyConfig]

Conversation(wa, t, st, cfg, at) ==
    [wa_id |-> wa, type |-> OrElse(t, "user_initiated"), status |-> OrElse(st, "new"),
     config |-> cfg, created_at |-> at]

Init ==
    /\ conversations = << Conversation("w1", "user_initiated", "new", EmptyConfig, 0) >>
    /\ messages = << Message([NoData EXCEPT !.conversation_id = 1, !.type = "text",
                                            !.wa_id = <<"in", 1>>, !.text = "hi",
                                            !.status = "received"]) >>
    /\ threads = <<>>
    /\ runs = <<>>
    /\ outbox = <<>>
    /\ procs = [p \in Procs |-> IdleProc]
    /\ calls = 0
    /\ lastWrite = NoWrite
    /\ plan = NoPlan
    /\ faults = 0

Step(p) ==
    \/ findConversationById(p)
    \/ findMessageById(p)
    \/ createThread(p)
    \/ updateConfig(p)
    \/ createMessage(p)
    \/ runAssistant(p)
    \/ waitForRunPoll(p)
    \/ waitForRunWake(p)
    \/ getLastAssistantMessage(p)
    \/ sendTextMessagePost(p)
    \/ sendTextMessageRow(p)

\* requests arrive one at a time, as the design asks of the callers
Next ==
    \/ processMessageWithAI("p1")
    \/ updateConversationConfig("p1")
    \/ createThreadEndpoint("p1")
    \/ runAssistantEndpoint("p1")
    \/ Step("p1")
    \/ Finish("p1")
    \/ RunStep
    \/ Tick

Spec == Init /\ [][Next]_vars

\* two requests overlap; they are followed until they wait on their runs,
\* while the assistant service leaves the runs queued
NextRace ==
    \E p \in Procs :
        \/ processMessageWithAI(p)
        \/ updateConversationConfig(p)
        \/ createThreadEndpoint(p)
        \/ runAssistantEndpoint(p)
        \/ findConversationById(p)
        \/ findMessageById(p)
        \/ createThread(p)
        \/ updateConfig(p)
        \/ createMessage(p)
        \/ runAssistant(p)
        \/ waitForRunPoll(p)

SpecRace == Init /\ [][NextRace]_vars

----------------------------------------------------------------------------
(* Specification of the config merge: updateConversationConfig(1, p) then     *)
(* updateConversationConfig(1, q), beside updateConversationConfig(2, {...p, *)
(* ...q}) on a second conversation that starts with the same config          *)

PlanKeys == {"thread_id", "assistant_openai_id"}

InitConfig ==
    /\ \E c \in PartialFunctions(PlanKeys, 1..MaxValue),
          p \in PartialFunctions(PlanKeys, 0..MaxValue),
          q \in PartialFunctions(PlanKeys, 0..MaxValue) :
        /\ plan = [c |-> c, p |-> p, q |-> q]
        /\ conversations = << Conversation("w1", "user_initiated", "new", c, 0),
                              Conversation("w2", "user_initiated", "new", c, 0) >>
    /\ messages = <<>>
    /\ threads = <<>>
    /\ runs = <<>>
    /\ outbox = <<>>
    /\ procs = [p \in Procs |-> IdleProc]
    /\ calls = 0
    /\ lastWrite = NoWrite
    /\ faults = 0

FirstUpdate == calls = 0 /\ updateConversationConfigCall("p1", 1, plan.p)

SecondUpdate == calls = 1 /\ updateConversationConfigCall("p1", 1, plan.q)

SingleUpdate ==
    /\ calls = 2 /\ procs["p1"].pc = "done"
    /\ updateConversationConfigCall("p2", 2, Spread(plan.p, plan.q))

NextConfig ==
    \/ FirstUpdate
    \/ SecondUpdate
    \/ SingleUpdate
    \/ \E p \in Procs : findConversationById(p) \/ updateConfig(p)
    \/ Finish("p1")

SpecConfig == InitConfig /\ [][NextConfig]_vars

----------------------------------------------------------------------------
(* Webhook ingestion: handleWebhook, WhatsAppService.processWebhook and      *)
(* handleMessageEvent                                                        *)

\* the loops of processWebhook up to the next await: changes of another field
\* and events without messages are passed over; only messages[0] is handled
RECURSIVE NextChange(_)
NextChange(pr) ==
    IF pr.changes = <<>>
    THEN [pr EXCEPT !.pc = "done", !.outcome = "ok", !.result = "success"]
    ELSE LET change == Head(pr.changes)
             rest == [pr EXCEPT !.changes = Tail(pr.changes)]
         IN  IF change.field # "messages" \/ change.messages = <<>>
             THEN NextChange(rest)
             ELSE [rest EXCEPT !.pc = "hme_find", !.message = change.messages[1],
                               !.at = Len(pr.envelope) - Len(rest.changes)]

\* a processWebhook that iterates webhookData.entry unchecked
processWebhookUnchecked(pr, webhookData) ==
    IF webhookData \in {NoBody, NoEntry}
    THEN [pr EXCEPT !.envelope = webhookData, !.pc = "done", !.outcome = "TypeError"]
    ELSE NextChange([pr EXCEPT !.envelope = webhookData, !.changes = webhookData])

\* processWebhook(webhookData) up to its first await
processWebhook(pr, webhookData) ==
    IF webhookData \in {NoBody, NoEntry}
    THEN [pr EXCEPT !.envelope = webhookData, !.pc = "done", !.outcome = "ok",
                    !.result = "invalid"]
    ELSE NextChange([pr EXCEPT !.envelope = webhookData, !.changes = webhookData])

\* handleWebhook's answer once processWebhook has returned or raised: the
\* result is not looked at; an error goes to next(error)
WebhookResponse(pr) ==
    IF pr.outcome = "ok"
    THEN [status |-> "200", success |-> TRUE]
    ELSE [status |-> "next(error)", success |-> FALSE]

\* POST /webhook: const result = await whatsappService.processWebhook(req.body)
handleWebhookCall(p, webhookData) ==
    /\ procs[p].op = "idle"
    /\ procs' = [procs EXCEPT ![p] =
            processWebhook(NewRequest("handleWebhook"), webhookData)]
    /\ calls' = calls + 1
    /\ UNCHANGED <<conversations, messages, threads, runs, outbox, lastWrite, plan, faults>>

handleWebhook(p) ==
    /\ calls < MaxCalls
    /\ \E webhookData \in Envelopes : handleWebhookCall(p, webhookData)

\* a lookup that finds nothing
findByWaIdNone(waId) == {}

\* the row ids ORDER BY created_at ASC LIMIT 1 may return
findByWaIdOldest(waId) ==
    LET rows == {i \in DOMAIN conversations : conversations[i].wa_id = waId}
    IN  {i \in rows : \A j \in rows :
            conversations[i].created_at <= conversations[j].created_at}

\* Conversation.findByWaId: the row ids the query may return, none when empty
findByWaId(waId) ==
    LET rows == {i \in DOMAIN conversations : conversations[i].wa_id = waId}
    IN  {i \in rows : \A j \in rows :
            conversations[j].created_at <= conversations[i].created_at}

\* new Date(): not before the stamp of any stored row
Now ==
    LET stamps == {conversations[i].created_at : i \in DOMAIN conversations} \cup {0}
    IN  {t \in 0..MaxClock : \A u \in stamps : u <= t}

\* an else branch that raises
UnsupportedThrows(pr) == [pr EXCEPT !.pc = "done", !.outcome = "Error"]

\* the else branch: logger.info('Unsupported message type'), then return
Unsupported(pr) == NextChange([pr EXCEPT !.handled.done = TRUE])

\* a getMediaInfo whose error is swallowed: the message is passed over
InvalidMediaSkipped(pr) == Unsupported(pr)

\* getMediaInfo: if (!media || !media.id) throw new Error('Invalid media data');
\* the catch blocks up to handleWebhook rethrow it
InvalidMedia(pr) == [pr EXCEPT !.pc = "done", !.outcome = "Error"]

\* a dispatch that stores a text message without its conversation
DispatchUnattached(pr) ==
    IF pr.message.type = "text"
    THEN [pr EXCEPT !.pc = "hme_row",
                    !.data = [NoData EXCEPT !.wa_id = <<"in", pr.message.id>>,
                                            !.type = "text", !.text = pr.message.text,
                                            !.status = "received"]]
    ELSE Unsupported(pr)

\* the dispatch on message.type, up to the next await
Dispatch(pr) ==
    LET m == pr.message
        data == [NoData EXCEPT !.conversation_id = pr.conv, !.wa_id = <<"in", m.id>>,
                               !.status = "received"]
    IN  IF m.type = "text"
        THEN [pr EXCEPT !.pc = "hme_row",
                        !.data = [data EXCEPT !.type = "text", !.text = m.text]]
        ELSE IF m.type \in MediaTypes
        THEN IF m.media = 0
             THEN InvalidMedia(pr)
             ELSE [pr EXCEPT !.pc = "hme_media"]
        ELSE IF m.type = "location"
        THEN [pr EXCEPT !.pc = "hme_row",
                        !.data = [data EXCEPT !.type = "location", !.location = "location"]]
        ELSE IF m.type = "contacts"
        THEN [pr EXCEPT !.pc = "hme_row",
                        !.data = [data EXCEPT !.type = "contact", !.contact = "contacts"]]
        ELSE Unsupported(pr)

\* let conversation = await databaseService.findConversationByWaId(waId)
findConversationByWaId(p) ==
    /\ procs[p].pc = "hme_find"
    /\ LET m == procs[p].message
           h == [NoEvent EXCEPT !.from = m.from, !.type = m.type, !.id = m.id,
                                !.at = procs[p].at,
                                !.convs0 = Len(conversations), !.rows0 = Len(messages)]
       IN  \/ procs' = Throw(p, "StorageError")
           \/ /\ findByWaId(m.from) = {}
              /\ \E t \in Now :
                    procs' = [procs EXCEPT ![p].pc = "hme_create", ![p].createdAt = t,
                                           ![p].handled = h]
           \/ \E c \in findByWaId(m.from) :
                    procs' = [procs EXCEPT ![p] =
                        Dispatch([procs[p] EXCEPT !.conv = c, !.wa_id = m.from,
                                                  !.handled = [h EXCEPT !.conv = c]])]
    /\ CountFault(p)
    /\ UNCHANGED <<conversations, messages, threads, runs, outbox, calls, lastWrite, plan>>

\* databaseService.createConversation({ wa_id, type: 'user_initiated', status: 'new' })
createConversation(p) ==
    /\ procs[p].pc = "hme_create"
    /\ \/ /\ procs' = Throw(p, "StorageError")
          /\ UNCHANGED conversations
       \/ LET c == Len(conversations) + 1
          IN  /\ conversations' = Append(conversations,
                    Conversation(procs[p].message.from, "user_initiated", "new",
                                 EmptyConfig, procs[p].createdAt))
              /\ procs' = [procs EXCEPT ![p] =
                    Dispatch([procs[p] EXCEPT !.conv = c, !.wa_id = procs[p].message.from,
                                              !.handled.conv = c,
                                              !.handled.created = TRUE])]
    /\ CountFault(p)
    /\ UNCHANGED <<messages, threads, runs, outbox, calls, lastWrite, plan>>

\* processMediaMessage: const mediaInfo = await this.getMediaInfo(message[message.type])
getMediaInfo(p) ==
    /\ procs[p].pc = "hme_media"
    /\ \/ procs' = Throw(p, "RemoteError")
       \/ \E mediaInfo \in {i \in MediaInfos :
                                i.url = "https://cdn/" \o procs[p].message.type} :
            procs' = [procs EXCEPT ![p].pc = "hme_row",
                ![p].handled.mediaInfo = mediaInfo,
                ![p].data = [NoData EXCEPT !.conversation_id = procs[p].conv,
                                           !.type = procs[p].message.type,
                                           !.wa_id = <<"in", procs[p].message.id>>,
                                           !.media = MediaData(mediaInfo),
                                           !.status = "received"]]
    /\ CountFault(p)
    /\ UNCHANGED <<conversations, messages, threads, runs, outbox, calls, lastWrite, plan>>

\* databaseService.createMessage(data) of the process*Message methods
databaseCreateMessage(p) ==
    /\ procs[p].pc = "hme_row"
    /\ \/ /\ procs' = Throw(p, "StorageError")
          /\ UNCHANGED messages
       \/ /\ messages' = Append(messages, Message(procs[p].data))
          /\ procs' = [procs EXCEPT ![p] =
                NextChange([procs[p] EXCEPT !.handled.row = Len(messages) + 1,
                                            !.handled.done = TRUE])]
    /\ CountFault(p)
    /\ UNCHANGED <<conversations, threads, runs, outbox, calls, lastWrite, plan>>

\* the conversation tables a webhook may meet: empty, one sender's rows in and
\* out of created_at order, rows with equal stamps, another sender's row
InitialStores ==
    LET row(wa, at) == Conversation(wa, "user_initiated", "new", EmptyConfig, at)
    IN  { <<>>,
          << row("w1", 0) >>,
          << row("w2", 0) >>,
          << row("w1", 0), row("w1", 1) >>,
          << row("w1", 1), row("w1", 0) >>,
          << row("w1", 1), row("w1", 1) >> }

InitIngest ==
    /\ conversations \in InitialStores
    /\ messages = <<>>
    /\ threads = <<>>
    /\ runs = <<>>
    /\ outbox = <<>>
    /\ procs = [p \in Procs |-> IdleProc]
    /\ calls = 0
    /\ lastWrite = NoWrite
    /\ plan = NoPlan
    /\ faults = 0

NextIngest ==
    \/ handleWebhook("p1")
    \/ findConversationByWaId("p1")
    \/ createConversation("p1")
    \/ getMediaInfo("p1")
    \/ databaseCreateMessage("p1")

SpecIngest == InitIngest /\ [][NextIngest]_vars

----------------------------------------------------------------------------
(* Specification of a repeated delivery: one text-message envelope is        *)
(* ingested, and when that request has ended the same envelope comes again   *)

TextEnvelopes ==
    {<< Change("messages", <<m>>) >> : m \in {n \in InboundMessages : n.type = "text"}}

FirstDelivery ==
    /\ calls = 0
    /\ \E webhookData \in TextEnvelopes : handleWebhookCall("p1", webhookData)

SecondDelivery ==
    /\ calls = 1 /\ procs["p1"].pc = "done"
    /\ handleWebhookCall("p2", procs["p1"].envelope)

NextTwice ==
    \/ FirstDelivery
    \/ SecondDelivery
    \/ \E p \in Procs :
        \/ findConversationByWaId(p)
        \/ createConversation(p)
        \/ databaseCreateMessage(p)

SpecTwice == InitIngest /\ [][NextTwice]_vars

----------------------------------------------------------------------------
(* Specification of the outbound sends on the stored conversation *)

NextSend ==
    \/ sendMessage("p1")
    \/ sendMediaMessage("p1")
    \/ findConversationById("p1")
    \/ sendTextMessagePost("p1")
    \/ sendTextMessageRow("p1")
    \/ sendMediaMessagePost("p1")
    \/ sendMediaMessageRow("p1")
    \/ Finish("p1")

SpecSend == Init /\ [][NextSend]_vars

----------------------------------------------------------------------------
(* Specification of the last assistant message: one request, the endpoint or *)
(* the orchestration, on a conversation whose stored thread holds messages   *)
(* in any order of created_at                                                *)

\* the lists messages.list may return for the stored thread
FetchedMessages ==
    [role : {"user", "assistant"}, content : {<<TextPart("a")>>}, run : {0},
     created_at : 1..2]
FetchedLists == UNION {[1..n -> FetchedMessages] : n \in 0..MaxFetched}

InitLast ==
    /\ conversations =
            << Conversation("w1", "user_initiated", "new", ("thread_id" :> 1), 0) >>
    /\ messages = << Message([NoData EXCEPT !.conversation_id = 1, !.type = "text",
                                            !.wa_id = <<"in", 1>>, !.text = "hi",
                                            !.status = "received"]) >>
    /\ \E ms \in FetchedLists :
            threads = << [messages |-> ms, by |-> "processMessageWithAI", conv |-> 1,
                          stored |-> TRUE] >>
    /\ runs = <<>>
    /\ outbox = <<>>
    /\ procs = [p \in Procs |-> IdleProc]
    /\ calls = 0
    /\ lastWrite = NoWrite
    /\ plan = NoPlan
    /\ faults = 0

\* one request: a handler starts while no request has been counted
NextLast ==
    \/ calls = 0 /\ getLastAssistantMessageEndpoint("p1")
    \/ calls = 0 /\ processMessageWithAI("p1")
    \/ findConversationById("p1")
    \/ findMessageById("p1")
    \/ createMessage("p1")
    \/ runAssistant("p1")
    \/ updateConfig("p1")
    \/ waitForRunPoll("p1")
    \/ waitForRunWake("p1")
    \/ getLastAssistantMessage("p1")
    \/ sendTextMessagePost("p1")
    \/ sendTextMessageRow("p1")
    \/ RunStep
    \/ Tick

SpecLast == InitLast /\ [][NextLast]_vars

----------------------------------------------------------------------------
(* The pooled connections of the store operations: each request is the       *)
(* sequence of store operations and awaited remote calls its handler makes,  *)
(* and two requests run at once                                              *)

FindOperations ==
    {"Conversation.findById", "Conversation.findByWaId", "Message.findById"}
StoreOperations ==
    FindOperations \cup
    {"Conversation.create", "Conversation.updateStatus", "Conversation.updateConfig",
     "Message.create", "Message.findByConversationId", "Message.updateStatus"}

\* an awaited call of the messaging platform or of the assistant service
RemoteCall == "await"

\* the store operations and remote calls of a handler, in the order of its code
Scripts ==
    { \* processMessageWithAI and processConversation on a conversation without thread
      << "Conversation.findById", "Message.findById", RemoteCall,
         "Conversation.updateConfig", RemoteCall, RemoteCall,
         "Conversation.updateConfig", RemoteCall, RemoteCall, RemoteCall,
         "Message.create" >>,
      \* handleMessageEvent for a media message of a new sender
      << "Conversation.findByWaId", "Conversation.create", RemoteCall, "Message.create" >>,
      \* markMessageAsRead and updateMessageStatus
      << RemoteCall, "Message.findById", "Message.updateStatus" >>,
      \* getMessages
      << "Conversation.findById", "Message.findByConversationId" >>,
      \* updateConversationStatus
      << "Conversation.findById", "Conversation.updateStatus" >> }

\* connections checked out of the pool
CheckedOut == procs["p1"].held + procs["p2"].held

\* a request arrives
scriptRequest(p) ==
    /\ procs[p].op = "idle"
    /\ \E sc \in Scripts :
        procs' = [procs EXCEPT ![p] =
            [NewRequest("script") EXCEPT !.pc = "pool_next", !.script = sc]]
    /\ UNCHANGED <<conversations, messages, threads, runs, outbox, calls, lastWrite, plan,
                   faults>>

\* const connection = await getConnection(): a connection is checked out when
\* the pool has one, or the pool rejects and the operation throws before its try
getConnection(p) ==
    /\ procs[p].pc = "pool_next"
    /\ procs[p].script # <<>> /\ Head(procs[p].script) \in StoreOperations
    /\ \/ /\ CheckedOut < ConnectionLimit
          /\ procs' = [procs EXCEPT ![p].pc = "pool_query", ![p].held = @ + 1,
                                    ![p].log = Append(@, "getConnection")]
       \/ procs' = [procs EXCEPT ![p].pc = "done", ![p].outcome = "StorageError",
                                 ![p].log = Append(@, "rejected")]
    /\ UNCHANGED <<conversations, messages, threads, runs, outbox, calls, lastWrite, plan,
                   faults>>

\* a finally block that is skipped when the query throws
releaseUnlessThrown(held, exit) == IF exit = "throw" THEN held ELSE held - 1

\* finally { connection.release() }: runs on every exit of the try block
release(held, exit) == held - 1

\* the request after the try block of a store operation left by `exit`
AfterExecute(pr, exit) ==
    LET rest == Tail(pr.script)
        freed == [pr EXCEPT !.held = release(pr.held, exit),
                            !.log = Append(@, exit)]
    IN  CASE exit = "throw" -> [freed EXCEPT !.pc = "done", !.outcome = "StorageError"]
          \* if (rows.length === 0) return null, and the caller ends the request
          [] exit = "return null" -> [freed EXCEPT !.pc = "done", !.outcome = "ApiError404"]
          [] OTHER ->
                IF rest = <<>> THEN [freed EXCEPT !.pc = "done", !.outcome = "ok",
                                                  !.script = rest]
                ELSE [freed EXCEPT !.pc = "pool_next", !.script = rest]

\* await connection.execute(...) settles: the try block is left by a return or
\* by the throw of the catch block, and the finally block runs
execute(p) ==
    /\ procs[p].pc = "pool_query"
    /\ \E exit \in {"return", "return null", "throw"} :
        /\ exit = "return null" => Head(procs[p].script) \in FindOperations
        /\ procs' = [procs EXCEPT ![p] = AfterExecute(procs[p], exit)]
    /\ UNCHANGED <<conversations, messages, threads, runs, outbox, calls, lastWrite, plan,
                   faults>>

\* an awaited remote call settles
awaitRemote(p) ==
    /\ procs[p].pc = "pool_next"
    /\ procs[p].script # <<>> /\ Head(procs[p].script) = RemoteCall
    /\ \/ procs' = [procs EXCEPT ![p].script = Tail(@),
                                 ![p].log = Append(@, RemoteCall)]
       \/ procs' = [procs EXCEPT ![p].pc = "done", ![p].outcome = "RemoteError"]
    /\ UNCHANGED <<conversations, messages, threads, runs, outbox, calls, lastWrite, plan,
                   faults>>

NextPool ==
    \E p \in Procs :
        \/ scriptRequest(p)
        \/ getConnection(p)
        \/ execute(p)
        \/ awaitRemote(p)
        \/ Finish(p)

SpecPool == Init /\ [][NextPool]_vars

----------------------------------------------------------------------------
(* utils/errors.js and middleware/errorHandler.js *)

\* a thrown value: an instance of one of the error classes, of Error itself or
\* of a class the application does not define ("Error"), or no Error at all
ErrorClasses == {"ApiError", "DatabaseError", "WhatsAppError", "OpenAIError", "Error"}
NotAnError == "thrown value"

Thrown(class, statusCode, message, isOperational) ==
    [class |-> class, statusCode |-> statusCode, message |-> message,
     isOperational |-> isOperational]

\* new ApiError(statusCode, message): isOperational defaults to true
ApiError(statusCode, message) == Thrown("ApiError", statusCode, message, TRUE)

\* new Error(message), and the errors of axios and of the assistant client,
\* which are instances of Error and of none of the application's classes
PlainError(message) == Thrown("Error", 0, message, FALSE)

\* convertToApiError(error)
convertToApiError(error) ==
    CASE error.class = "ApiError" -> error
      [] error.class = "DatabaseError" -> ApiError(500, "Database error occurred")
      [] error.class = "WhatsAppError" ->
            ApiError(503, "WhatsApp API error: " \o error.message)
      [] error.class = "OpenAIError" ->
            ApiError(503, "OpenAI API error: " \o error.message)
      [] OTHER ->
            \* const isOperational = error instanceof Error
            LET isOperational == error.class = "Error"
            IN  Thrown("ApiError", 500,
                       IF isOperational THEN error.message ELSE "Internal server error",
                       isOperational)

\* process.env.NODE_ENV: unset, or one of the usual names
NodeEnvs == {"", "development", "production", "test"}

\* errorHandler(err, req, res, next): the response, and the number of calls
\* of handleError
errorHandler(err, nodeEnv) ==
    LET error == IF err.class # "ApiError" THEN convertToApiError(err) ELSE err
    IN  [status |-> error.statusCode, message |-> error.message,
         stack |-> (nodeEnv = "development"),
         handleError |-> IF ~error.isOperational THEN 1 ELSE 0]

\* what a handler of this application passes to next(error), by outcome
ErrorOf(outcome) ==
    CASE outcome = "ApiError400" -> ApiError(400, "Missing required parameters")
      [] outcome = "ApiError404" -> ApiError(404, "not found")
      [] outcome = "ApiError500" -> ApiError(500, "No response from AI")
      \* database.js: throw new Error(`... with ID ${id} not found`)
      [] outcome = "Error" -> PlainError("with ID not found")
      \* models: throw new Error(`Failed to ...: ${error.message}`)
      [] outcome = "StorageError" -> PlainError("Failed to")
      \* axios and the assistant client reject with their own Error subclasses
      [] outcome = "RemoteError" -> PlainError("Request failed")
      [] outcome = "Timeout" -> PlainError("timeout after")
      [] OTHER -> PlainError(outcome)

\* the status of the response to an ended request
HttpStatus(pr) ==
    IF pr.outcome = "ok" THEN 200
    ELSE IF pr.outcome = "404" THEN 404
    ELSE errorHandler(ErrorOf(pr.outcome), "production").status

\* the values a handler or a middleware may pass to next(error)
ErrorMessages == {"boom", "connect ECONNREFUSED 10.0.0.5:3306"}
ThrownValues ==
    {Thrown("ApiError", st, m, op) :
        st \in {400, 404, 500, 503}, m \in ErrorMessages, op \in BOOLEAN}
    \cup {Thrown(c, 0, m, FALSE) :
            c \in (ErrorClasses \ {"ApiError"}) \cup {NotAnError}, m \in ErrorMessages}

\* Express calls errorHandler with the value given to next(error)
errorHandlerCall(p) ==
    /\ procs[p].pc = "next(error)"
    /\ procs' = [procs EXCEPT
            ![p].response = errorHandler(procs[p].thrown, procs[p].nodeEnv),
            ![p].pc = "done", ![p].outcome = "error"]
    /\ UNCHANGED <<conversations, messages, threads, runs, outbox, calls, lastWrite, plan,
                   faults>>

InitErrors ==
    /\ conversations = <<>>
    /\ messages = <<>>
    /\ threads = <<>>
    /\ runs = <<>>
    /\ outbox = <<>>
    /\ \E err \in ThrownValues, env \in NodeEnvs :
            procs = [p \in Procs |->
                IF p = "p1"
                THEN [IdleProc EXCEPT !.op = "request", !.pc = "next(error)",
                                      !.thrown = err, !.nodeEnv = env]
                ELSE IdleProc]
    /\ calls = 0
    /\ lastWrite = NoWrite
    /\ plan = NoPlan
    /\ faults = 0

NextErrors == errorHandlerCall("p1")

SpecErrors == InitErrors /\ [][NextErrors]_vars

----------------------------------------------------------------------------
(* Specification of one request to /send, /sendMedia or /processWithAI on    *)
(* the stored conversation, from its parameter check to its end              *)

\* one request: a handler starts while no request has been counted
NextOnce ==
    \/ calls = 0 /\ sendMessage("p1")
    \/ calls = 0 /\ sendMediaMessage("p1")
    \/ calls = 0 /\ processMessageWithAI("p1")
    \/ Step("p1")
    \/ sendMediaMessagePost("p1")
    \/ sendMediaMessageRow("p1")
    \/ RunStep
    \/ Tick

SpecOnce == Init /\ [][NextOnce]_vars

----------------------------------------------------------------------------
(* GET /webhook: verifyWebhook, called twice with the same query *)

\* process.env.WHATSAPP_VERIFY_TOKEN
VerifyToken == "s3cret"

\* req.query['hub.mode'], ['hub.verify_token'], ['hub.challenge']
Queries ==
    [mode : {Absent, "", "subscribe", "unsubscribe"},
     token : {Absent, "", VerifyToken, "guess"},
     challenge : {Absent, "XYZ", "1158201444"}]

\* a string in a condition: undefined and '' are falsy
Truthy(v) == v # Absent /\ v # ""

\* a verification that accepts any token
verifyWebhookAnyToken(q) ==
    IF Truthy(q.mode) /\ Truthy(q.token)
    THEN IF q.mode = "subscribe"
         THEN [status |-> 200, body |-> q.challenge]
         ELSE [status |-> 403, body |-> "Forbidden"]
    ELSE [status |-> 400, body |-> "Bad Request"]

\* verifyWebhook: res.status(200).send(challenge), res.sendStatus(403) or
\* res.sendStatus(400)
verifyWebhook(q) ==
    IF Truthy(q.mode) /\ Truthy(q.token)
    THEN IF q.mode = "subscribe" /\ q.token = VerifyToken
         THEN [status |-> 200, body |-> q.challenge]
         ELSE [status |-> 403, body |-> "Forbidden"]
    ELSE [status |-> 400, body |-> "Bad Request"]

\* the handler answers the request
verifyWebhookCall(p) ==
    /\ procs[p].pc = "verify"
    /\ procs' = [procs EXCEPT ![p].answer = verifyWebhook(procs[p].query),
                              ![p].pc = "done", ![p].outcome = "answered"]
    /\ UNCHANGED <<conversations, messages, threads, runs, outbox, calls, lastWrite, plan,
                   faults>>

InitVerify ==
    /\ conversations \in InitialStores
    /\ messages = <<>>
    /\ threads = <<>>
    /\ runs = <<>>
    /\ outbox = <<>>
    /\ \E q \in Queries :
            procs = [p \in Procs |->
                [IdleProc EXCEPT !.op = "verifyWebhook", !.pc = "verify", !.query = q]]
    /\ calls = 0
    /\ lastWrite = NoWrite
    /\ plan = NoPlan
    /\ faults = 0

NextVerify == \E p \in Procs : verifyWebhookCall(p)

SpecVerify == InitVerify /\ [][NextVerify]_vars

----------------------------------------------------------------------------
(* Specification of the status updates of the stored message *)

NextStatus ==
    \/ markAsRead("p1")
    \/ updateMessageStatus("p1")
    \/ markMessageAsReadPost("p1")
    \/ updateMessageStatusFind("p1")
    \/ updateStatus("p1")
    \/ Finish("p1")

SpecStatus == Init /\ [][NextStatus]_vars

----------------------------------------------------------------------------
(* Specification of the wait endpoint alone: one request polling one run *)

InitWait ==
    /\ conversations = <<>>
    /\ messages = <<>>
    /\ threads = << [messages |-> <<>>, by |-> "idle", conv |-> 0, stored |-> FALSE] >>
    /\ runs = << [thread |-> 1, status |-> "queued", assistant |-> <<DefaultAssistant, 0>>] >>
    /\ outbox = <<>>
    /\ procs = [p \in Procs |-> IdleProc]
    /\ calls = 0
    /\ lastWrite = NoWrite
    /\ plan = NoPlan
    /\ faults = 0

WaitStep(p) == waitForRunPoll(p) \/ waitForRunWake(p)

NextWait ==
    \/ waitForRunEndpoint("p1")
    \/ WaitStep("p1")
    \/ RunStep
    \/ Tick

\* every status fetch returns and time advances; the run itself owes nothing
SpecWait ==
    InitWait /\ [][NextWait]_vars /\ WF_vars(WaitStep("p1")) /\ WF_vars(Tick)

----------------------------------------------------------------------------
(* Claims about waitForRun *)

\* C2: waitForRun returns normally only with a last fetched status outside
\* {queued, in_progress, cancelling}; it neither fetches nor sleeps again once
\* a fetch reported such a status; it raises the timeout error only while the
\* last fetched status is inside the set and the elapsed time exceeds the
\* timeout; and it never asks the service to cancel the run.
C2_WaitForRunContract ==
    \A p \in Procs :
        /\ procs[p].waited = "returned"
            => procs[p].status \in {"completed", "failed", "cancelled", "expired"}
        /\ ~procs[p].afterEnd
        /\ procs[p].waited = "timeout"
            => /\ procs[p].status \in {"queued", "in_progress", "cancelling"}
               /\ procs[p].timeout[1] = "num"
               /\ procs[p].elapsed > procs[p].timeout[2]
        /\ "runs.cancel" \notin Range(procs[p].log)

\* a wait that slept at least once and then returned with an ended run
C2_Witness ==
    /\ procs["p1"].op = "waitForRun"
    /\ procs["p1"].waited = "returned"
    /\ procs["p1"].wake > 0

\* a wait that ended by the timeout error
C2_WitnessTimeout ==
    procs["p1"].op = "waitForRun" /\ procs["p1"].waited = "timeout"

\* C3: every call of waitForRun eventually returns or raises, whatever the
\* interval and timeout the endpoint passes on, even if the run never ends.
C3_WaitForRunTerminates ==
    (procs["p1"].op = "waitForRun") ~> (procs["p1"].pc = "done")

\* the same for the calls whose timeout is a number
C3_NumericTimeoutTerminates ==
    (procs["p1"].op = "waitForRun" /\ procs["p1"].timeout[1] = "num")
        ~> (procs["p1"].pc = "done")

----------------------------------------------------------------------------
(* Claims about the orchestration *)

IsAI(pr) == pr.op = "processMessageWithAI"
Faulted(pr) == pr.outcome \in {"RemoteError", "StorageError"}
StoredConfig(pr) == conversations[pr.conv].config

FullLog ==
    <<"threads.create", "config.thread_id", "messages.create", "runs.create",
      "config.run_id", "runs.retrieve", "messages.list", "whatsapp.send",
      "row.bot_answer">>

\* a call that found no stored thread, met no failure and saw its run end
C1_Case(pr) ==
    /\ IsAI(pr) /\ pr.pc = "done" /\ ~Faulted(pr)
    /\ pr.log # <<>> /\ Head(pr.log) = "threads.create"
    /\ pr.waited = "returned"

\* the thread of the call holds an assistant message, the newest with content
HasReply(pr) ==
    LET msgs == threads[pr.threadId].messages
    IN  /\ AssistantMessages(msgs) # {}
        /\ msgs[lastAssistantMessage(msgs)].content # <<>>

C1_Sent(pr) ==
    /\ pr.outcome = "ok" /\ pr.log = FullLog
    /\ Len(outbox) = pr.sent0 + 1 /\ Len(messages) = pr.rows0 + 1
    /\ outbox[Len(outbox)].to = pr.wa_id
    /\ messages[Len(messages)].type = "bot_answer"
    /\ messages[Len(messages)].status = "sent"
    /\ messages[Len(messages)].conversation_id = pr.conv
    /\ StoredConfig(pr) = Spread(StoredConfig(pr),
            ("thread_id" :> pr.threadId) @@ ("run_id" :> pr.runId))

\* C1 as claimed: on a conversation without thread, with no failure and the run
\* at an end status, the call makes its nine calls once each in order and ends
\* with one reply sent and one bot_answer row with status sent.
C1_AsClaimed ==
    \A p \in Procs : C1_Case(procs[p]) => C1_Sent(procs[p])

\* C1 amended: the same, provided the run left the thread a newest assistant
\* message with content; otherwise the call makes the first seven calls in
\* order, fails with "No response from AI" and neither sends nor records.
C1_EffectsInOrder ==
    \A p \in Procs : C1_Case(procs[p]) =>
        IF HasReply(procs[p])
        THEN C1_Sent(procs[p])
        ELSE /\ procs[p].outcome = "ApiError500"
             /\ procs[p].log = SubSeq(FullLog, 1, Len(FullLog) - 2)
             /\ Len(outbox) = procs[p].sent0 /\ Len(messages) = procs[p].rows0

C1_Witness ==
    C1_Case(procs["p1"]) /\ HasReply(procs["p1"]) /\ procs["p1"].outcome = "ok"

\* C4: a call whose wait ended by the timeout error has sent nothing and
\* recorded no row, and the stored config names the run the call started.
C4_TimeoutKeepsRunId ==
    \A p \in Procs :
        (IsAI(procs[p]) /\ procs[p].waited = "timeout") =>
            /\ procs[p].outcome = "Timeout"
            /\ procs[p].status \in {"queued", "in_progress", "cancelling"}
            /\ Len(outbox) = procs[p].sent0
            /\ Len(messages) = procs[p].rows0
            /\ "run_id" \in DOMAIN StoredConfig(procs[p])
            /\ StoredConfig(procs[p])["run_id"] = procs[p].runId
            /\ runs[procs[p].runId].thread = procs[p].threadId

C4_Witness ==
    IsAI(procs["p1"]) /\ procs["p1"].waited = "timeout"

\* C5: a call sends a reply only if the run it waited for ended as completed.
C5_ReplyOnlyWhenCompleted ==
    \A p \in Procs :
        (IsAI(procs[p]) /\ procs[p].sentId # 0) => procs[p].status = "completed"

ThreadsOf(c) ==
    {t \in 1..Len(threads) :
        threads[t].by = "processMessageWithAI" /\ threads[t].conv = c}

\* C6 as claimed: calls that do not overlap create at most one thread for a
\* conversation, at whatever step an earlier call failed.
C6_AsClaimed ==
    \A c \in 1..Len(conversations) : Cardinality(ThreadsOf(c)) <= 1

\* C6 amended: once a call has stored the id of the thread it created, no
\* later call creates a thread for that conversation; and every call appends
\* its message to the thread the stored config names.
C6_OneStoredThread ==
    /\ \A c \in 1..Len(conversations) : \A t, u \in ThreadsOf(c) :
            t < u => ~threads[t].stored
    /\ \A p \in Procs :
            (IsAI(procs[p]) /\ procs[p].pc = "run_assistant") =>
                /\ "thread_id" \in DOMAIN StoredConfig(procs[p])
                /\ StoredConfig(procs[p])["thread_id"] = procs[p].threadId

\* a later call appended to the thread an earlier call created and stored
C6_Witness ==
    /\ IsAI(procs["p1"]) /\ procs["p1"].pc = "run_assistant"
    /\ "threads.create" \notin Range(procs["p1"].log)
    /\ threads[procs["p1"].threadId].by = "processMessageWithAI"

\* both calls, on one conversation, created a thread and appended to it
C7_Case(p, q) ==
    /\ p # q /\ IsAI(procs[p]) /\ IsAI(procs[q])
    /\ procs[p].conv = procs[q].conv
    /\ {"threads.create", "messages.create"} \subseteq Range(procs[p].log)
    /\ {"threads.create", "messages.create"} \subseteq Range(procs[q].log)

\* C7: when two overlapping calls both found no thread and both created one,
\* the stored thread id is the one of the UPDATE executed last, and the other
\* call's user message sits in a thread the stored config does not name.
C7_RaceLeavesOrphanThread ==
    \A p, q \in Procs : C7_Case(p, q) =>
        /\ procs[p].threadId # procs[q].threadId
        /\ StoredConfig(procs[p])["thread_id"] = lastWrite.after["thread_id"]
        /\ StoredConfig(procs[p])["thread_id"] \in {procs[p].threadId, procs[q].threadId}
        /\ \A r \in {p, q} :
                \E i \in 1..Len(threads[procs[r].threadId].messages) :
                    threads[procs[r].threadId].messages[i].role = "user"

C7_Witness ==
    /\ C7_Case("p1", "p2")
    /\ StoredConfig(procs["p1"])["thread_id"] # procs["p1"].threadId

\* C8: every config write keeps each stored key that is not among the incoming
\* keys, with its value.
C8_WritesAreMerges ==
    \A k \in DOMAIN lastWrite.before :
        k \notin lastWrite.incoming =>
            k \in DOMAIN lastWrite.after /\ lastWrite.after[k] = lastWrite.before[k]

----------------------------------------------------------------------------
(* Claims about the config merge *)

C9_Case ==
    /\ calls = 3 /\ faults = 0
    /\ procs["p1"].pc = "done" /\ procs["p2"].pc = "done"

\* C9: updateConversationConfig(id, p) followed by updateConversationConfig(id, q)
\* stores what one updateConversationConfig(id, {...p, ...q}) stores: a key in
\* neither p nor q keeps its value, a key of q has q's value, a key of p alone
\* has p's value (a key whose last incoming value is undefined is not stored).
C9_SequentialMergeIsOverlay ==
    C9_Case =>
        /\ conversations[1].config = conversations[2].config
        /\ \A k \in PlanKeys :
            LET v == IF k \in DOMAIN plan.q THEN plan.q[k]
                     ELSE IF k \in DOMAIN plan.p THEN plan.p[k]
                     ELSE IF k \in DOMAIN plan.c THEN plan.c[k]
                     ELSE 0
            IN  IF v = 0
                THEN k \notin DOMAIN conversations[1].config
                ELSE /\ k \in DOMAIN conversations[1].config
                     /\ conversations[1].config[k] = v

\* both updates changed a key the stored config had, to different values
C9_Witness ==
    /\ C9_Case
    /\ \E k \in DOMAIN plan.c \cap DOMAIN plan.p \cap DOMAIN plan.q :
            /\ plan.p[k] # plan.q[k] /\ plan.q[k] # plan.c[k] /\ plan.q[k] # 0
    /\ \E k \in DOMAIN plan.c : k \notin DOMAIN plan.p \cup DOMAIN plan.q

----------------------------------------------------------------------------
(* Claims about webhook ingestion *)

SupportedTypes == {"text", "location", "contacts"} \cup MediaTypes

\* the conversations of the event's sender when the handler looked them up
MatchesBefore(h) == {i \in 1..h.convs0 : conversations[i].wa_id = h.from}

LatestBefore(h) ==
    {i \in MatchesBefore(h) : \A j \in MatchesBefore(h) :
        conversations[j].created_at <= conversations[i].created_at}

Resolved(h) ==
    IF MatchesBefore(h) # {}
    THEN /\ h.conv \in LatestBefore(h)
         /\ ~h.created
         /\ Len(conversations) = h.convs0
    ELSE /\ h.created
         /\ Len(conversations) = h.convs0 + 1
         /\ h.conv = Len(conversations)
         /\ conversations[h.conv].wa_id = h.from
         /\ conversations[h.conv].status = "new"
         /\ conversations[h.conv].type = "user_initiated"

Attached(h) ==
    /\ Len(messages) = h.rows0 + 1
    /\ h.row = Len(messages)
    /\ messages[h.row].conversation_id = h.conv
    /\ messages[h.row].wa_id = <<"in", h.id>>

\* C10 as stated: every message event handled is attached to the latest
\* conversation of its sender, or to the one conversation created for it
C10_AsClaimed ==
    \A p \in Procs :
        LET h == procs[p].handled
        IN  h.done => Resolved(h) /\ Attached(h)

\* C10: every message event whose handling got past the lookup resolves its
\* conversation as stated (the latest of the sender, none created; or exactly
\* one created with status new and type user_initiated); when the handler
\* returns, the message is attached to that conversation if its kind is
\* supported, and no row is written for it otherwise; when the handler throws
\* after resolving the conversation, no row is written either.
C10_ResolvesThenAttachesSupported ==
    \A p \in Procs :
        LET h == procs[p].handled
        IN  /\ h.conv # 0 => Resolved(h)
            /\ h.done /\ h.type \in SupportedTypes => Attached(h)
            /\ h.done /\ h.type \notin SupportedTypes =>
                    h.row = 0 /\ Len(messages) = h.rows0
            /\ ~h.done /\ procs[p].pc = "done" => h.row = 0 /\ Len(messages) = h.rows0

\* the sender had two conversations, the later one stored first, and the
\* message went to it
C10_Witness ==
    \E p \in Procs :
        LET h == procs[p].handled
        IN  /\ h.done /\ Attached(h)
            /\ Cardinality(MatchesBefore(h)) = 2
            /\ LatestBefore(h) = {1}

\* a message of an unsupported kind from a new sender: a conversation, no row
C10_WitnessUnsupported ==
    \E p \in Procs :
        LET h == procs[p].handled
        IN  h.done /\ h.created /\ h.type \notin SupportedTypes /\ Len(messages) = h.rows0

\* the messages handleMessageEvent is given by the changes i..j of an envelope
FirstMessages(env, i, j) ==
    {k \in i..j : k \in DOMAIN env /\ env[k].field = "messages" /\ env[k].messages # <<>>}

IsIngest(pr) == pr.op = "handleWebhook" /\ pr.envelope \notin {NoBody, NoEntry}

\* C11: within one processWebhook call, for every sender that had no
\* conversation before the call, at most one conversation exists afterwards,
\* however many changes of the envelope carry messages of that sender.
C11_OneConversationPerNewSender ==
    \A p \in Procs : IsIngest(procs[p]) =>
        \A s \in Senders :
            (\A i \in 1..procs[p].convs0 : conversations[i].wa_id # s) =>
                Cardinality({i \in DOMAIN conversations : conversations[i].wa_id = s}) <= 1

\* two changes of one envelope carried messages of a sender unknown before
C11_Witness ==
    \E p \in Procs :
        /\ IsIngest(procs[p]) /\ procs[p].pc = "done" /\ procs[p].outcome = "ok"
        /\ \E j, k \in FirstMessages(procs[p].envelope, 1, Len(procs[p].envelope)) :
            /\ j # k
            /\ procs[p].envelope[j].messages[1].from = procs[p].envelope[k].messages[1].from
            /\ \A i \in 1..procs[p].convs0 :
                    conversations[i].wa_id # procs[p].envelope[j].messages[1].from

\* the supported messages of all 'messages' changes of an envelope
SupportedUnits(env) ==
    {<<k, i>> \in (DOMAIN env) \X (1..2) :
        /\ env[k].field = "messages" /\ i \in DOMAIN env[k].messages
        /\ env[k].messages[i].type \in SupportedTypes}

RowsOf(pr) == {i \in DOMAIN messages : i > pr.rows0}

\* C12 as stated: a successful processWebhook created one row with status
\* received for every supported message of every 'messages' change.
C12_AsClaimed ==
    \A p \in Procs :
        IsIngest(procs[p]) /\ procs[p].pc = "done" /\ procs[p].outcome = "ok" =>
            /\ Cardinality(RowsOf(procs[p])) = Cardinality(SupportedUnits(procs[p].envelope))
            /\ \A i \in RowsOf(procs[p]) : messages[i].status = "received"

\* what the code does: one row per 'messages' change whose first message is
\* of a supported kind; the other messages of a change leave no row
C12_OneRowPerChange ==
    \A p \in Procs :
        IsIngest(procs[p]) /\ procs[p].pc = "done" /\ procs[p].outcome = "ok" =>
            /\ Cardinality(RowsOf(procs[p])) =
                    Cardinality({k \in FirstMessages(procs[p].envelope, 1,
                                                     Len(procs[p].envelope)) :
                        procs[p].envelope[k].messages[1].type \in SupportedTypes})
            /\ \A i \in RowsOf(procs[p]) : messages[i].status = "received"

\* the step of request p in which the conversation of its current message
\* is found or created, after which the dispatch on message.type runs
ResolvingStep(p) ==
    /\ procs[p].pc \in {"hme_find", "hme_create"}
    /\ procs'[p].handled.at = procs[p].at /\ procs'[p].handled.conv # 0
    /\ ~(procs[p].handled.at = procs[p].at /\ procs[p].handled.conv # 0)

\* C13: a message of an unsupported kind makes handleMessageEvent return
\* without raising and without a new row, and processWebhook goes on with the
\* next change that carries messages, or returns success when there is none.
C13_UnsupportedIsSkipped ==
    [][\A p \in Procs :
        ResolvingStep(p) /\ procs[p].message.type \notin SupportedTypes =>
            LET pr == procs'[p]
                later == FirstMessages(pr.envelope, procs[p].at + 1, Len(pr.envelope))
            IN  /\ messages' = messages
                /\ pr.handled.done
                /\ IF later = {}
                   THEN pr.pc = "done" /\ pr.outcome = "ok" /\ pr.result = "success"
                   ELSE /\ pr.pc = "hme_find" /\ pr.outcome = "none"
                        /\ pr.at \in later /\ \A k \in later : pr.at <= k
                        /\ pr.message = pr.envelope[pr.at].messages[1]]_vars

\* an unsupported message was passed over and the next change is being handled
C13_Witness ==
    \E p \in Procs :
        /\ procs[p].handled.done /\ procs[p].handled.type \notin SupportedTypes
        /\ procs[p].pc = "hme_find" /\ procs[p].at = 2 /\ procs[p].handled.at = 1

IngestFailed(pr) == IsIngest(pr) /\ pr.pc = "done" /\ pr.outcome \notin {"ok", "none"}

\* C14: when handling a change raises, the request ends with that error and
\* without a result; the rows of the call are those of the earlier changes
\* (one per change whose first message is supported), the conversations of the
\* call belong to senders of changes up to the raising one, and handling never
\* goes past a change whose media message has no id (which always raises).
C14_FirstErrorWins ==
    \A p \in Procs :
        LET pr == procs[p]
            env == pr.envelope
        IN  /\ IngestFailed(pr) =>
                /\ pr.result = "none"
                /\ pr.outcome \in {"Error", "StorageError", "RemoteError"}
                /\ Cardinality(RowsOf(pr)) =
                        Cardinality({k \in FirstMessages(env, 1, pr.at - 1) :
                                        env[k].messages[1].type \in SupportedTypes})
                /\ \A i \in RowsOf(pr) : messages[i].status = "received"
                /\ \A i \in DOMAIN conversations : i > pr.convs0 =>
                        \E k \in FirstMessages(env, 1, pr.at) :
                            env[k].messages[1].from = conversations[i].wa_id
            /\ IsIngest(pr) =>
                \A k \in FirstMessages(env, 1, pr.at - 1) :
                    ~(env[k].messages[1].type \in MediaTypes /\ env[k].messages[1].media = 0)

\* the second change raised after the first had left its row
C14_Witness ==
    \E p \in Procs :
        /\ IngestFailed(procs[p]) /\ procs[p].at = 2
        /\ Cardinality(RowsOf(procs[p])) = 1
        /\ Len(procs[p].envelope) = 2

\* C15: processWebhook on an absent envelope or one without entry list returns
\* the failure result without raising and leaves both tables as they were.
C15_InvalidEnvelopeIsReported ==
    [][\A p \in Procs :
        /\ procs[p].op = "idle" /\ procs'[p].op = "handleWebhook"
        /\ procs'[p].envelope \in {NoBody, NoEntry}
        => /\ procs'[p].pc = "done" /\ procs'[p].outcome = "ok"
           /\ procs'[p].result = "invalid"
           /\ conversations' = conversations /\ messages' = messages]_vars

C15_Witness ==
    \E p \in Procs :
        /\ procs[p].op = "handleWebhook" /\ procs[p].envelope = NoBody
        /\ procs[p].result = "invalid" /\ conversations # <<>>

\* C16 as stated: POST /webhook answers 200 {success:true} exactly when
\* processWebhook returned its success result.
C16_AsClaimed ==
    \A p \in Procs :
        procs[p].op = "handleWebhook" /\ procs[p].pc = "done" =>
            (WebhookResponse(procs[p]) = [status |-> "200", success |-> TRUE]
                <=> procs[p].result = "success")

\* what the code does: 200 {success:true} exactly when processWebhook did not
\* raise, the failure result included
C16_SuccessUnlessRaised ==
    \A p \in Procs :
        procs[p].op = "handleWebhook" /\ procs[p].pc = "done" =>
            (WebhookResponse(procs[p]) = [status |-> "200", success |-> TRUE]
                <=> procs[p].result \in {"success", "invalid"})

----------------------------------------------------------------------------
(* Claims about a repeated delivery *)

BothDelivered ==
    /\ procs["p1"].op = "handleWebhook" /\ procs["p1"].pc = "done"
    /\ procs["p2"].op = "handleWebhook" /\ procs["p2"].pc = "done"

TwoRows ==
    /\ procs["p1"].outcome = "ok" /\ procs["p2"].outcome = "ok"
    /\ Len(messages) = 2
    /\ procs["p1"].handled.row = 1 /\ procs["p2"].handled.row = 2
    /\ messages[1].wa_id = messages[2].wa_id
    /\ messages[1].wa_id = <<"in", procs["p1"].envelope[1].messages[1].id>>

\* C17 as stated: the same text message delivered twice, with every storage
\* call succeeding, raises nothing and leaves two rows with the same external
\* id, attached to the same conversation.
C17_AsClaimed ==
    BothDelivered /\ faults = 0 =>
        TwoRows /\ messages[1].conversation_id = messages[2].conversation_id

\* what the code does: the same, with the same conversation only when the
\* sender's latest conversation is the only one with its created_at
C17_SameConversationWithoutTies ==
    BothDelivered /\ faults = 0 =>
        /\ TwoRows
        /\ LET mine == {i \in DOMAIN conversations :
                            conversations[i].wa_id = procs["p1"].handled.from}
               latest == {i \in mine : \A j \in mine :
                            conversations[j].created_at <= conversations[i].created_at}
           IN  Cardinality(latest) = 1 =>
                    messages[1].conversation_id = messages[2].conversation_id

----------------------------------------------------------------------------
(* Claims about the stored message rows *)

\* the payload field that goes with a kind
PayloadOf(kind) ==
    CASE kind \in {"text", "bot_answer"} -> "text"
      [] kind \in MediaTypes -> "media"
      [] kind = "location" -> "location"
      [] kind = "contact" -> "contact"
      [] OTHER -> "none"

PayloadFields == {"text", "media", "location", "contact"}

\* C18 as stated: every stored row has the payload field of its kind set and
\* the three others null, a text message with an empty body included.
C18_AsClaimed ==
    \A i \in DOMAIN messages :
        \A f \in PayloadFields : (messages[i][f] # Null) <=> (f = PayloadOf(messages[i].type))

\* what ingestion does: no payload field other than the one of the kind is
\* set, and that one is set unless the text is the empty string
C18_NoForeignPayload ==
    \A i \in DOMAIN messages :
        \A f \in PayloadFields :
            /\ messages[i][f] # Null => f = PayloadOf(messages[i].type)
            /\ f = PayloadOf(messages[i].type) /\ messages[i][f] = Null =>
                    messages[i].type = "text"

MessageKinds ==
    {"text", "image", "document", "audio", "video", "location", "contact", "bot_answer"}

\* C19 as stated: the kind of every stored row is one of the eight kinds, and
\* the row of an outbound media send has kind bot_answer.
C19_AsClaimed ==
    \A i \in DOMAIN messages :
        /\ messages[i].type \in MessageKinds
        /\ messages[i].wa_id[1] = "out" => messages[i].type = "bot_answer"

\* what the code does: the row of an outbound media send has kind media, the
\* row of an outbound text send bot_answer, both with status sent
C19_MediaRowsHaveKindMedia ==
    \A i \in DOMAIN messages :
        /\ messages[i].type \in MessageKinds \cup {"media"}
        /\ messages[i].wa_id[1] = "out" =>
            /\ messages[i].status = "sent"
            /\ messages[i].type = (IF messages[i].media # Null THEN "media" ELSE "bot_answer")

\* the order of the statuses: pending, then received or sent, then delivered,
\* then read; 0 for a status outside the order
StatusRank(status) ==
    CASE status = "pending" -> 1
      [] status \in {"received", "sent"} -> 2
      [] status = "delivered" -> 3
      [] status = "read" -> 4
      [] OTHER -> 0

\* C20 as stated: no step changes a status read to another status or moves a
\* status to an earlier one of the order.
C20_AsClaimed ==
    [][\A i \in DOMAIN messages :
        messages'[i].status # messages[i].status =>
            /\ messages[i].status # "read"
            /\ StatusRank(messages[i].status) # 0 /\ StatusRank(messages'[i].status) # 0 =>
                    StatusRank(messages[i].status) < StatusRank(messages'[i].status)]_vars

\* what the code does: a status write stores the status the caller passed,
\* and POST /markAsRead passes read
C20_WritesWhatItIsGiven ==
    [][\A i \in DOMAIN messages :
        messages'[i].status # messages[i].status =>
            /\ messages'[i].status = procs["p1"].newStatus
            /\ procs["p1"].op = "markAsRead" => messages'[i].status = "read"]_vars

----------------------------------------------------------------------------
(* Claims about the outbound sends *)

IsSend(pr) == pr.op \in {"sendMessage", "sendMediaMessage"}

\* the controller called sendTextMessage or sendMediaMessage: the parameter
\* check and the conversation lookup have passed
Attempted(pr) == IsSend(pr) /\ pr.wa_id # ""

\* C21 as stated: an ended send attempt has written exactly one row, whether
\* the platform call succeeded or failed.
C21_AsClaimed ==
    \A p \in Procs :
        Attempted(procs[p]) /\ procs[p].pc = "done" =>
            Len(messages) = procs[p].rows0 + 1

\* what the code does: an attempt writes its one row when both the platform
\* call and the insert succeed, and no row otherwise; never more than one
C21_RowOnlyOnSuccess ==
    \A p \in Procs :
        Attempted(procs[p]) =>
            /\ Len(messages) <= procs[p].rows0 + 1
            /\ procs[p].pc = "done" =>
                (Len(messages) = procs[p].rows0 + 1 <=> procs[p].outcome = "ok")

C21_FailedAttempt ==
    \E p \in Procs :
        /\ Attempted(procs[p]) /\ procs[p].pc = "done"
        /\ procs[p].outcome = "RemoteError"
        /\ Len(messages) = procs[p].rows0

----------------------------------------------------------------------------
(* Claims about the last assistant message *)

\* getLastAssistantMessage returns to its caller in this step
ReturnsLast(p) ==
    /\ procs[p].pc = "pc_last" /\ procs'[p].pc # "pc_last"
    /\ procs'[p].outcome # "RemoteError"

\* a request of processMessageWithAI that got null and has ended
EndedOnNull(pr) ==
    /\ IsAI(pr) /\ pr.pc = "done" /\ pr.outcome = "ApiError500"
    /\ pr.lastIndex = 0 /\ pr.log # <<>> /\ pr.log[Len(pr.log)] = "messages.list"

\* C22: getLastAssistantMessage returns an assistant message of the fetched
\* list that no other assistant message of the list is newer than, and null
\* exactly when the list has no assistant message; on null the endpoint
\* answers 404, and processMessageWithAI ends with the error 'No response from
\* AI' (status 500) having sent nothing and stored no row.
C22_LastAssistantMessage ==
    /\ [][\A p \in Procs : ReturnsLast(p) =>
            LET msgs == threads[procs[p].threadId].messages
                i == procs'[p].lastIndex
            IN  /\ i = 0 <=> AssistantMessages(msgs) = {}
                /\ i # 0 =>
                    /\ i \in AssistantMessages(msgs)
                    /\ \A j \in AssistantMessages(msgs) :
                            msgs[j].created_at <= msgs[i].created_at
                /\ i = 0 =>
                    /\ procs'[p].pc = "done"
                    /\ procs'[p].outcome = (IF procs[p].op = "getLastAssistantMessage"
                                            THEN "404" ELSE "ApiError500")
                    /\ outbox' = outbox /\ messages' = messages]_vars
    /\ [](\A p \in Procs : EndedOnNull(procs[p]) =>
            /\ Len(outbox) = procs[p].sent0
            /\ Len(messages) = procs[p].rows0)

\* the endpoint returned the middle message of three assistant messages, the
\* newest of them
C22_Witness ==
    LET pr == procs["p1"]
        msgs == threads[1].messages
    IN  /\ pr.op = "getLastAssistantMessage" /\ pr.pc = "done" /\ pr.outcome = "ok"
        /\ Len(msgs) = 3 /\ pr.lastIndex = 2
        /\ \A j \in {1, 3} : msgs[j].role = "assistant"
                                /\ msgs[j].created_at < msgs[2].created_at

\* processMessageWithAI got null for a thread without assistant messages
C22_WitnessNull ==
    /\ EndedOnNull(procs["p1"])
    /\ Len(threads[1].messages) > 1

----------------------------------------------------------------------------
(* Claims about the responses to failed requests *)

\* the database service finds no row with the id and throws in this step
ThrowsNotFound(p) == procs[p].outcome # "Error" /\ procs'[p].outcome = "Error"

\* C23 as stated: an update of a row that does not exist leaves the stores as
\* they are and is answered with status 404.
C23_AsClaimed ==
    [][\A p \in Procs : ThrowsNotFound(p) =>
            /\ messages' = messages /\ conversations' = conversations
            /\ HttpStatus(procs'[p]) = 404]_vars

\* what the code does: the stores are left as they are, and the plain Error
\* of the database service is answered with status 500
C23_NotFoundIsAnswered500 ==
    [][\A p \in Procs : ThrowsNotFound(p) =>
            /\ messages' = messages /\ conversations' = conversations
            /\ HttpStatus(procs'[p]) = 500]_vars

C23_UnknownMessage ==
    /\ procs["p1"].op = "markAsRead" /\ procs["p1"].outcome = "Error"
    /\ procs["p1"].messageId \notin DOMAIN messages

----------------------------------------------------------------------------
(* Claims about the pooled connections *)

\* a store operation of request p is between its getConnection and the end of
\* its try block
InStoreOperation(p) == procs[p].pc = "pool_query"

\* request p awaits a call of the messaging platform or the assistant service
AwaitsRemote(p) ==
    /\ procs[p].pc = "pool_next"
    /\ procs[p].script # <<>> /\ Head(procs[p].script) = RemoteCall

\* C24: a request holds one connection while one of its store operations is in
\* progress and none otherwise, whichever way its earlier operations ended;
\* so no connection is checked out when no store operation is in progress,
\* and none is held while a request awaits a remote call.
C24_ConnectionsAreReleased ==
    /\ \A p \in Procs : procs[p].held = (IF InStoreOperation(p) THEN 1 ELSE 0)
    /\ (\A p \in Procs : ~InStoreOperation(p)) => CheckedOut = 0
    /\ \A p \in Procs : AwaitsRemote(p) => procs[p].held = 0

\* one request has ended on a query that threw, the other awaits a remote call
\* after two store operations
C24_Witness ==
    /\ procs["p1"].pc = "done" /\ procs["p1"].outcome = "StorageError"
    /\ procs["p1"].log # <<>> /\ procs["p1"].log[Len(procs["p1"].log)] = "throw"
    /\ AwaitsRemote("p2")
    /\ Len(SelectSeq(procs["p2"].log, LAMBDA e : e = "return")) >= 2

\* C25 as stated: a request that ended on a failed remote call is answered
\* with status 503, one that ended on a failed storage call with status 500.
C25_AsClaimed ==
    \A p \in Procs :
        procs[p].pc = "done" =>
            /\ procs[p].outcome = "RemoteError" => HttpStatus(procs[p]) = 503
            /\ procs[p].outcome = "StorageError" => HttpStatus(procs[p]) = 500

\* what the code does: both kinds of failure reach errorHandler as plain
\* errors and are answered with status 500
C25_BothAnswered500 ==
    \A p \in Procs :
        procs[p].pc = "done" /\ procs[p].outcome \in {"RemoteError", "StorageError"} =>
            HttpStatus(procs[p]) = 500

C25_RemoteFailure ==
    /\ procs["p1"].op = "sendMessage" /\ procs["p1"].pc = "done"
    /\ procs["p1"].outcome = "RemoteError"

\* errorHandler has answered the request
Answered(pr) == pr.pc = "done" /\ pr.outcome = "error"

\* an error object of none of the application's error classes
Unexpected(err) == err.class = "Error"

\* C26 as stated: outside development mode the response to an unexpected error
\* has status 500 and a message that is not the error's own message.
C26_AsClaimed ==
    \A p \in Procs :
        Answered(procs[p]) /\ Unexpected(procs[p].thrown) =>
            /\ procs[p].response.status = 500
            /\ procs[p].nodeEnv # "development" =>
                    procs[p].response.message # procs[p].thrown.message

\* what the code does: the response to an unexpected error has status 500 and
\* the error's own message in every mode; the mode decides about the stack only
C26_MessageShownInEveryMode ==
    \A p \in Procs :
        Answered(procs[p]) =>
            /\ Unexpected(procs[p].thrown) =>
                /\ procs[p].response.status = 500
                /\ procs[p].response.message = procs[p].thrown.message
            /\ procs[p].response.stack <=> procs[p].nodeEnv = "development"

C26_ProductionLeak ==
    /\ Answered(procs["p1"]) /\ Unexpected(procs["p1"].thrown)
    /\ procs["p1"].nodeEnv = "production"
    /\ procs["p1"].response.message = "connect ECONNREFUSED 10.0.0.5:3306"

\* C27 as stated: an unexpected error is passed to handleError exactly once,
\* and an operational error of the application's classes never.
C27_AsClaimed ==
    \A p \in Procs :
        Answered(procs[p]) =>
            /\ Unexpected(procs[p].thrown) => procs[p].response.handleError = 1
            /\ procs[p].thrown.class \in ErrorClasses \ {"Error"}
                    /\ (procs[p].thrown.class = "ApiError" => procs[p].thrown.isOperational)
                => procs[p].response.handleError = 0

\* what the code does: handleError is called once for a thrown value that is
\* no Error and for an ApiError made non-operational, and for nothing else
C27_OnlyNonErrorsAreHandled ==
    \A p \in Procs :
        Answered(procs[p]) =>
            procs[p].response.handleError =
                (IF \/ procs[p].thrown.class = NotAnError
                    \/ procs[p].thrown.class = "ApiError" /\ ~procs[p].thrown.isOperational
                 THEN 1 ELSE 0)

C27_UnexpectedNotHandled ==
    /\ Answered(procs["p1"]) /\ Unexpected(procs["p1"].thrown)
    /\ procs["p1"].response.handleError = 0

----------------------------------------------------------------------------
(* Claims about rejected requests *)

\* the handlers of /send, /sendMedia and /processWithAI
IsChecked(pr) == pr.op \in {"sendMessage", "sendMediaMessage", "processMessageWithAI"}

\* the request names a conversation, or a message, that is not stored
NamesAbsentRow(pr) ==
    \/ pr.conversationId # 0 /\ pr.conversationId \notin DOMAIN conversations
    \/ pr.op = "processMessageWithAI" /\ pr.messageId # 0
        /\ pr.messageId \notin DOMAIN messages

\* the request has made no remote call and no write
NoEffect(pr) ==
    /\ Len(outbox) = pr.sent0 /\ Len(messages) = pr.rows0
    /\ Len(conversations) = pr.convs0
    /\ pr.log = <<>> /\ runs = <<>>
    /\ \A t \in DOMAIN threads : threads[t].messages = <<>> /\ threads[t].by = "idle"
    /\ \A i \in DOMAIN conversations : conversations[i].config = EmptyConfig

C28_WitnessMissing ==
    /\ procs["p1"].op = "sendMediaMessage" /\ procs["p1"].pc = "done"
    /\ HttpStatus(procs["p1"]) = 400 /\ NoEffect(procs["p1"])

----------------------------------------------------------------------------
(* Claims about the webhook verification *)

Verified(pr) == pr.op = "verifyWebhook" /\ pr.pc = "done"

\* a query parameter that is absent or empty
Missing(v) == v = Absent \/ v = ""

\* C29: GET /webhook answers 200 with the challenge as body exactly when mode
\* is subscribe and the token is the configured one, 400 when mode or token is
\* missing, and 403 when both are there and either is wrong; two requests
\* with the same query get the same answer, and no step changes the stores.
C29_VerifyWebhook ==
    /\ [](\A p \in Procs : Verified(procs[p]) =>
            LET q == procs[p].query
                a == procs[p].answer
            IN  /\ a.status = 200 <=> (q.mode = "subscribe" /\ q.token = VerifyToken)
                /\ a.status = 200 => a.body = q.challenge
                /\ a.status = 400 <=> (Missing(q.mode) \/ Missing(q.token))
                /\ a.status = 403 <=>
                        /\ ~Missing(q.mode) /\ ~Missing(q.token)
                        /\ (q.mode # "subscribe" \/ q.token # VerifyToken)
                /\ \A r \in Procs :
                        Verified(procs[r]) /\ procs[r].query = q => procs[r].answer = a)
    /\ [][UNCHANGED <<conversations, messages, threads, runs, outbox>>]_vars

\* both requests were answered 200 with the challenge
C29_Witness ==
    /\ \A p \in Procs : Verified(procs[p]) /\ procs[p].answer = [status |-> 200, body |-> "XYZ"]
    /\ conversations # <<>>

\* a right mode with a wrong token was answered 403
C29_WitnessForbidden ==
    /\ Verified(procs["p1"]) /\ procs["p1"].query.mode = "subscribe"
    /\ procs["p1"].query.token = "guess" /\ procs["p1"].answer.status = 403

----------------------------------------------------------------------------
(* Claims about the media send *)

\* a /sendMedia request without caption that has stored its row
SentWithoutCaption(pr) ==
    /\ pr.op = "sendMediaMessage" /\ pr.pc = "done" /\ pr.outcome = "ok"
    /\ pr.caption = Null

\* C30 as stated: the payload of a media send without caption has the empty
\* caption, and the stored mime type is image/jpeg unless the type is
\* document, for which it is a pdf type.
C30_AsClaimed ==
    \A p \in Procs :
        SentWithoutCaption(procs[p]) =>
            /\ outbox[procs[p].sentId].caption = ""
            /\ procs[p].mediaType # "document" =>
                    messages[Len(messages)].media = "image/jpeg"
            /\ procs[p].mediaType = "document" =>
                    messages[Len(messages)].media \in {"application/pdf", "document/pdf"}

\* C30: the payload of a media send without caption has the empty caption,
\* and the stored mime type is the media type followed by /jpeg (video/jpeg
\* for video), or document/pdf when the type is document.
C30_MimeFollowsType ==
    \A p \in Procs :
        SentWithoutCaption(procs[p]) =>
            /\ outbox[procs[p].sentId].caption = ""
            /\ outbox[procs[p].sentId].media = procs[p].mediaType
            /\ messages[Len(messages)].media =
                    (IF procs[p].mediaType = "document" THEN "document/pdf"
                     ELSE procs[p].mediaType \o "/jpeg")

\* a video was sent without caption and its row stored
C30_Witness ==
    /\ SentWithoutCaption(procs["p1"]) /\ procs["p1"].mediaType = "video"
    /\ messages[Len(messages)].media = "video/jpeg"

----------------------------------------------------------------------------
(* Media rows follow the media lookup *)

\* the stored media text names this url and this mime type
HoldsUrlAndMime(media, info) ==
    media = "{" \o info.url \o "," \o info.mime_type \o "}"

\* the request is handling an inbound message of a media kind
HandlesMedia(p) ==
    /\ procs[p].op = "handleWebhook"
    /\ procs[p].message.type \in MediaTypes

\* C31: the row of an inbound image, document, audio or video message is
\* created only after getMediaInfo has returned, and its media field holds the
\* url and mime type returned; when the lookup fails or the media reference
\* has no id the error ends the request and no row is created for the message
C31_MediaRowFollowsLookup ==
    /\ [][\A p \in Procs :
            HandlesMedia(p) /\ Len(messages') > Len(messages) =>
                /\ procs[p].pc = "hme_row"
                /\ procs[p].handled.mediaInfo \in MediaInfos
                /\ messages'[Len(messages')].type = procs[p].message.type
                /\ HoldsUrlAndMime(messages'[Len(messages')].media,
                                   procs[p].handled.mediaInfo)]_vars
    /\ [][\A p \in Procs :
            /\ HandlesMedia(p) /\ procs[p].pc = "hme_media" /\ procs'[p].pc # "hme_media"
               => \/ procs'[p].pc = "hme_row" /\ procs'[p].handled.mediaInfo \in MediaInfos
                  \/ procs'[p].pc = "done" /\ procs'[p].outcome = "RemoteError"
            /\ /\ HandlesMedia(p) /\ procs[p].message.media = 0
               /\ procs[p].pc \in {"hme_find", "hme_create"}
               /\ procs'[p].pc # "hme_create" /\ procs'[p].outcome # "StorageError"
               => procs'[p].pc = "done" /\ procs'[p].outcome = "Error"]_vars
    /\ [](\A p \in Procs :
            /\ HandlesMedia(p) /\ procs[p].pc = "done"
            /\ procs[p].outcome \in {"Error", "RemoteError"}
            => /\ Len(messages) = procs[p].handled.rows0
               /\ WebhookResponse(procs[p]).status = "next(error)")

\* a video message's row holds what the lookup returned
C31_Witness ==
    /\ procs["p1"].message.type = "video"
    /\ procs["p1"].handled.row = Len(messages) /\ Len(messages) > 0
    /\ procs["p1"].handled.mediaInfo.mime_type = "video/x"
    /\ messages[Len(messages)].media = "{https://cdn/video,video/x}"

\* the lookup of an image failed after an earlier message of the envelope
\* was stored
C31_WitnessFailed ==
    /\ procs["p1"].pc = "done" /\ procs["p1"].outcome = "RemoteError"
    /\ procs["p1"].message.type = "image"
    /\ Len(messages) = 1 /\ procs["p1"].handled.rows0 = 1

\* a media reference without id ended the request
C31_WitnessNoId ==
    /\ procs["p1"].pc = "done" /\ procs["p1"].outcome = "Error"
    /\ procs["p1"].message.type = "image" /\ procs["p1"].message.media = 0
    /\ messages = <<>>

----------------------------------------------------------------------------
(* Storage and messages of unsupported kind *)

\* C32: handling an inbound message of unsupported kind leaves storage
\* unchanged: no message row and no conversation row is created, even when the
\* sender has no conversation yet
C32_AsClaimed ==
    [][\A p \in Procs :
        /\ procs[p].op = "handleWebhook"
        /\ procs[p].pc \in {"hme_find", "hme_create"}
        /\ procs[p].message.type \notin SupportedTypes
        => conversations' = conversations /\ messages' = messages]_vars

\* a sticker of a sender without conversation was passed over, and the
\* conversation table has grown by that sender's row
C32_ConversationCreated ==
    LET h == procs["p1"].handled
    IN  /\ h.done /\ h.type = "sticker" /\ h.convs0 = 0
        /\ Len(conversations) = 1 /\ conversations[1].wa_id = h.from
        /\ messages = <<>>

----------------------------------------------------------------------------
(* The reply and the run of the call *)

\* C33: the reply processMessageWithAI sends is an assistant message produced
\* by the run started in that same call, never one that was in the thread
\* before the call appended its user message
C33_AsClaimed ==
    \A p \in Procs :
        (IsAI(procs[p]) /\ procs[p].sentId # 0) =>
            procs[p].replyRun = procs[p].runId

\* the run of the call failed, and the text of an assistant message that was
\* in the thread before the call has been sent to the contact
C33_OldReplySent ==
    LET pr == procs["p1"]
    IN  /\ IsAI(pr) /\ pr.sentId # 0 /\ pr.status = "failed"
        /\ pr.runId # 0 /\ pr.replyRun = 0
        /\ threads[pr.threadId].messages[pr.lastIndex].role = "assistant"
        /\ outbox[pr.sentId].text = "a"

----------------------------------------------------------------------------
(* markAsRead and the two identifiers of a message *)

\* request p is a markAsRead that passed the parameter check with an
\* identifier of stored row i, and neither the platform nor the store failed
MarkedAsRead(p, i) ==
    /\ procs[p].op = "markAsRead" /\ procs[p].pc = "done"
    /\ procs[p].given \in {RowId(i), messages[i].wa_id}
    /\ ~Faulted(procs[p])

\* C34: markAsRead with the identifier of an ingested message sends a read
\* receipt that names the message's platform message id and sets the status
\* of that message's row to read
C34_AsClaimed ==
    \A p \in Procs : \A i \in 1..Len(messages) :
        MarkedAsRead(p, i) =>
            /\ Len(outbox) = procs[p].sent0 + 1
            /\ outbox[Len(outbox)].receipt = messages[i].wa_id
            /\ messages[i].status = "read"

\* called with the row id: the row is read, the receipt names the row id
C34_ReceiptNamesRowId ==
    /\ MarkedAsRead("p1", 1) /\ procs["p1"].outcome = "ok"
    /\ messages[1].status = "read"
    /\ outbox[Len(outbox)].receipt = RowId(1)
    /\ outbox[Len(outbox)].receipt # messages[1].wa_id

\* called with the platform message id: the receipt is sent, no row is found
C34_RowNotFound ==
    /\ MarkedAsRead("p1", 1) /\ procs["p1"].outcome = "Error"
    /\ outbox[Len(outbox)].receipt = messages[1].wa_id
    /\ messages[1].status = "received"

\* C35: markMessageAsRead is all-or-nothing: when it fails because no stored
\* message has the given id, or the store update fails, no read receipt has
\* been delivered; when it succeeds the receipt was sent and the status is read
C35_AsClaimed ==
    \A p \in Procs :
        (procs[p].op = "markAsRead" /\ procs[p].pc = "done"
            /\ procs[p].outcome # "ApiError400") =>
            IF procs[p].outcome = "ok"
            THEN /\ Len(outbox) = procs[p].sent0 + 1
                 /\ outbox[Len(outbox)].receipt = procs[p].given
                 /\ messages[procs[p].messageId].status = "read"
            ELSE Len(outbox) = procs[p].sent0

\* no row has the given id: the call failed after its receipt was delivered
C35_ReceiptButNoRow ==
    /\ procs["p1"].op = "markAsRead" /\ procs["p1"].outcome = "Error"
    /\ procs["p1"].given = RowId(Len(messages) + 1)
    /\ Len(outbox) = procs["p1"].sent0 + 1
    /\ outbox[Len(outbox)].receipt = procs["p1"].given

\* the store update failed after the receipt was delivered
C35_ReceiptButNoUpdate ==
    /\ procs["p1"].op = "markAsRead" /\ procs["p1"].outcome = "StorageError"
    /\ procs["p1"].given = RowId(1) /\ messages[1].status = "received"
    /\ Len(outbox) = procs["p1"].sent0 + 1

----------------------------------------------------------------------------
(* sendTextMessage: the platform call, then the row *)

IsTextSend(pr) == pr.op \in {"sendMessage", "processMessageWithAI"}

\* the step of request p in which sendTextMessage's row is created
TextRowStep(p) ==
    /\ IsTextSend(procs[p]) /\ procs[p].pc = "send_row"
    /\ Len(messages') = Len(messages) + 1

\* the step in which the platform accepts the text of request p
TextPostStep(p) ==
    /\ IsTextSend(procs[p]) /\ procs[p].pc = "send_post"
    /\ Len(outbox') = Len(outbox) + 1

\* the row created in this step follows the accepted platform call of the same
\* request: kind bot_answer, status sent, the platform-returned id
RowAsPosted(p) ==
    LET row == messages'[Len(messages')]
    IN  /\ procs[p].sentId = Len(outbox) /\ Len(outbox) = procs[p].sent0 + 1
        /\ row.type = "bot_answer" /\ row.status = "sent"
        /\ row.wa_id = <<"out", procs[p].sentId>>
        /\ row.conversation_id = procs[p].conversationId

\* processMessageWithAI posts the text parts of the reply, concatenated in
\* order, to the conversation's wa_id
ReplyPosted(p) ==
    LET reply == threads[procs[p].threadId].messages[procs[p].lastIndex]
        sent == outbox'[Len(outbox')]
    IN  /\ reply.role = "assistant"
        /\ sent.text = ResponseText(reply.content)
        /\ sent.to = conversations[procs[p].conversationId].wa_id

\* a platform call that is not accepted ends the request with its error
PostFailed(p) ==
    /\ IsTextSend(procs[p]) /\ procs[p].pc = "send_post"
    /\ ~TextPostStep(p) /\ procs'[p] # procs[p]

\* rows of text sends are created in the row step, after an accepted post
RowFollowsPost(p) ==
    /\ Len(messages') > Len(messages) /\ IsTextSend(procs[p]) => TextRowStep(p)
    /\ TextRowStep(p) => RowAsPosted(p)
    /\ TextPostStep(p) /\ procs[p].op = "processMessageWithAI" => ReplyPosted(p)
    /\ PostFailed(p) => procs'[p].pc = "done" /\ procs'[p].outcome = "RemoteError"

\* a text send whose platform call has not been accepted has no row
NoRowWithoutPost ==
    \A p \in Procs :
        IsTextSend(procs[p]) /\ procs[p].sentId = 0 => Len(messages) = procs[p].rows0

C36_EmptyTextStoredAsNull ==
    /\ procs["p1"].op = "processMessageWithAI" /\ procs["p1"].outcome = "ok"
    /\ outbox[procs["p1"].sentId].text = ""
    /\ messages[Len(messages)].type = "bot_answer"
    /\ messages[Len(messages)].text = Null

----------------------------------------------------------------------------
(* Specification of two webhook requests that overlap: each carries one text *)
(* message, of the contact with a stored conversation or of an unseen one,   *)
(* and their steps interleave in any order                                   *)

NextOverlap ==
    \E p \in Procs :
        \/ \E s \in Senders, id \in 2..3 :
                handleWebhookCall(p, << Change("messages",
                                              <<InboundMessage(s, "text", id, "hi", 0)>>) >>)
        \/ findConversationByWaId(p)
        \/ createConversation(p)
        \/ databaseCreateMessage(p)

SpecOverlap == Init /\ [][NextOverlap]_vars

\* the stored conversations of a contact
ConversationsOf(waId) == {c \in 1..Len(conversations) : conversations[c].wa_id = waId}

\* C37: across concurrently handled webhook requests at most one conversation
\* is created for a contact that had none: overlapping requests with messages
\* of the same unseen contact attach them to one single conversation
C37_AsClaimed ==
    /\ \A s \in Senders : Cardinality(ConversationsOf(s)) <= 1
    /\ \A i, j \in 1..Len(messages) :
            conversations[messages[i].conversation_id].wa_id
                = conversations[messages[j].conversation_id].wa_id
            => messages[i].conversation_id = messages[j].conversation_id

\* both requests ended without error, each created a conversation for the
\* unseen contact and attached its message to its own
C37_TwoConversations ==
    /\ \A p \in Procs : procs[p].pc = "done" /\ procs[p].outcome = "ok"
                          /\ procs[p].handled.from = "w2" /\ procs[p].handled.created
    /\ faults = 0
    /\ Cardinality(ConversationsOf("w2")) = 2
    /\ procs["p1"].handled.conv # procs["p2"].handled.conv
    /\ messages[procs["p1"].handled.row].conversation_id = procs["p1"].handled.conv
    /\ messages[procs["p2"].handled.row].conversation_id = procs["p2"].handled.conv

----------------------------------------------------------------------------
(* The stored thread id *)

HasThread(config) == "thread_id" \in DOMAIN config

\* C38: once a conversation's stored config contains a thread id, no sequence
\* of non-overlapping operations (processMessageWithAI, the create-thread
\* endpoint, the run-assistant endpoint, updateConversationConfig with other
\* keys) changes it to a different thread id
C38_AsClaimed ==
    [][\A c \in 1..Len(conversations) :
        HasThread(conversations[c].config) =>
            /\ HasThread(conversations'[c].config)
            /\ conversations'[c].config["thread_id"] = conversations[c].config["thread_id"]]_vars

\* the create-thread endpoint has ended on a conversation whose thread was
\* stored by an earlier processMessageWithAI: the config names the new thread
C38_ThreadReplaced ==
    /\ procs["p1"].op = "createThread" /\ procs["p1"].outcome = "ok"
    /\ Len(threads) = 2
    /\ threads[1].by = "processMessageWithAI" /\ threads[1].stored /\ threads[1].conv = 1
    /\ HasThread(conversations[1].config)
    /\ conversations[1].config["thread_id"] = 2

----------------------------------------------------------------------------
(* Specification of the HTTP endpoints that write rows: the webhook ingests  *)
(* one change, and when that request has ended one request to /send,         *)
(* /sendMedia or /processWithAI follows                                      *)

NextEndpoints ==
    \/ /\ calls = 0
       /\ \E m \in InboundMessages :
                handleWebhookCall("p1", << Change("messages", <<m>>) >>)
    \/ calls = 1 /\ sendMessage("p1")
    \/ calls = 1 /\ sendMediaMessage("p1")
    \/ calls = 1 /\ processMessageWithAI("p1")
    \/ findConversationByWaId("p1")
    \/ createConversation("p1")
    \/ getMediaInfo("p1")
    \/ databaseCreateMessage("p1")
    \/ Step("p1")
    \/ sendMediaMessagePost("p1")
    \/ sendMediaMessageRow("p1")
    \/ Finish("p1")
    \/ RunStep
    \/ Tick

SpecEndpoints == Init /\ [][NextEndpoints]_vars

\* C39: in every state reachable through the endpoints every stored message
\* row's conversation_id is the id of a stored conversation, and no operation
\* removes a conversation row or a message row
C39_RowsBelongToConversations ==
    /\ [](\A i \in 1..Len(messages) :
            messages[i].conversation_id \in 1..Len(conversations))
    /\ [][/\ Len(conversations') >= Len(conversations)
          /\ Len(messages') >= Len(messages)
          /\ \A c \in 1..Len(conversations) :
                conversations'[c].wa_id = conversations[c].wa_id
          /\ \A i \in 1..Len(messages) :
                /\ messages'[i].wa_id = messages[i].wa_id
                /\ messages'[i].conversation_id = messages[i].conversation_id]_vars

\* an ingested message of a new contact and a sent media message have their
\* rows, each in a stored conversation
C39_Witness ==
    /\ Len(conversations) = 2 /\ Len(messages) = 3
    /\ messages[2].conversation_id = 2 /\ messages[2].status = "received"
    /\ messages[3].type = "media" /\ messages[3].conversation_id \in 1..2

----------------------------------------------------------------------------
(* processMessageWithAI and the conversation of the message *)

\* the request names a stored message and a stored conversation other than
\* the message's own
ForeignMessage(pr) ==
    /\ IsAI(pr)
    /\ pr.messageId \in 1..Len(messages)
    /\ pr.conversationId \in 1..Len(conversations)
    /\ messages[pr.messageId].conversation_id # pr.conversationId

\* C40: when the stored message's conversation_id differs from the request's
\* conversationId, processMessageWithAI makes no assistant call, writes no
\* config and sends nothing
C40_AsClaimed ==
    \A p \in Procs :
        ForeignMessage(procs[p]) =>
            /\ procs[p].log = <<>>
            /\ threads = <<>> /\ runs = <<>>
            /\ conversations[procs[p].conversationId].config = EmptyConfig
            /\ Len(outbox) = procs[p].sent0

\* the text of a message of contact w2 was answered in the conversation of
\* contact w1: thread and run stored in w1's config, the reply sent to w1
C40_ForeignMessageAnswered ==
    LET pr == procs["p1"]
    IN  /\ ForeignMessage(pr) /\ pr.outcome = "ok"
        /\ pr.conversationId = 1 /\ messages[pr.messageId].conversation_id = 2
        /\ conversations[2].wa_id = "w2"
        /\ HasThread(conversations[1].config)
        /\ outbox[pr.sentId].to = "w1"
        /\ messages[Len(messages)].conversation_id = 1
        /\ messages[Len(messages)].type = "bot_answer"

====
